---- MODULE Spec2Model ----
(***************************************************************************)
(* Snapshot testing of an agent runtime (@tarko/agent-snapshot).           *)
(*                                                                         *)
(* The model covers AgentSnapshot.generate / AgentSnapshot.test            *)
(* (agent-snapshot.ts), the hook lifecycle of AgentHookBase                *)
(* (agent-hook-base.ts: hookAgent, unhookAgent, safeHook, hasError,        *)
(* getLastError), the snapshot directory the two read and write, and the   *)
(* agent runtime as the sequence of extension-point calls of its loops.    *)
(* The generate and replay hooks and the runtime are not part of the       *)
(* sources at hand; they are modelled from the specification.              *)
(***************************************************************************)
EXTENDS Integers, Sequences, FiniteSets, TLC

\* ---------------------------------------------------------------- bounds
MaxLoops == 2        \* a run executes between 1 and MaxLoops loops
MaxInvocations == 2  \* generate()/test() calls made on the orchestrator

\* ------------------------------------------------------------ vocabulary
Undefined == "undefined"

\* The nine extension points of the runtime that hookAgent overwrites.
HookNames ==
  { "onLLMRequest", "onLLMResponse", "onLLMStreamingResponse",
    "onAgentLoopEnd", "onEachAgentLoopStart", "onBeforeToolCall",
    "onAfterToolCall", "onToolCallError", "onProcessToolCalls" }

\* Callers of the one orchestrator: a slot per pending promise. Slot 2 is
\* used by the specification in which calls overlap.
Procs == {1, 2}

HookIds == 1..MaxInvocations

\* The file each artifact of a loop directory is kept in.
ArtifactFiles ==
  { "llm-request.jsonl", "llm-response.jsonl",
    "event-stream.jsonl", "tool-calls.jsonl" }

\* What the runtime does in a run: the content of its payloads and the
\* number of loops it executes.
Contents == {"c1", "c2"}
Behaviours == [content : Contents, loops : 1..MaxLoops]

\* The callbacks of a generate hook that fail (a write fails): <<loop,
\* extension point>>. No failure, one, or every extension point of loop 1.
FaultPlans ==
  { {}, {<<1, "onLLMRequest">>}, {<<1, n>> : n \in HookNames} }

\* A payload carries the run's content and a volatile id (one per run).
Payload(content, stamp) == [id |-> stamp, value |-> content]
Absent == [id |-> 0, value |-> "absent"]

\* The callbacks of the runtime before any hook is installed.
OriginalCallbacks == [n \in HookNames |-> [kind |-> "original", hook |-> 0]]

\* `{}`: the backup map of a hook that is not installed.
EmptyHooks == <<>>

NoError == [type |-> "null", hook |-> 0, seq |-> 0]
HookError(h, n) == [type |-> "HookExecutionError", hook |-> h, seq |-> n]
RunError == [type |-> "RunError", hook |-> 0, seq |-> 0]
SnapshotNotFound == [type |-> "SnapshotNotFound", hook |-> 0, seq |-> 0]
LoopCountMismatch == [type |-> "LoopCountMismatch", hook |-> 0, seq |-> 0]

VARIABLES
  \* the agent runtime
  agentHooks,            \* extension point -> callback now set on the agent
  llmClient,             \* "real", or the hook whose mock client is installed
  isReplay,              \* the runtime's replay flag
  currentLoopIteration,  \* Agent.getCurrentLoopIteration()
  \* the snapshot directory
  dirExists,             \* fs.existsSync(snapshotPath)
  snapLoops,             \* n -> artifacts of directory loop-<n>
  actualFiles,           \* scratch "actual" files: <<loop, file>>
  otherEntries,          \* what else the snapshot directory holds
  \* the hooks, one per invocation
  hookKind,              \* "none" | "generate" | "replay"
  isHooked,
  originalHooks,
  lastError,
  failures,              \* errors the hook has recorded so far
  hookCfg,               \* what test() handed to setup()
  \* the invocations
  pc,                    \* where each caller's generate()/test() stands
  inv,                   \* the invocation: kind, hook, behaviour, loopCount
  run,                   \* the agent.run() it awaits
  result,                \* what the caller observes once it has finished
  nInv,                  \* invocations started so far
  \* history
  preHooks,              \* agentHooks when the invocation began
  endHooks,              \* agentHooks when the invocation finished
  overlapped,            \* another invocation was pending during this one
  wrapperThrew,          \* a wrapper has thrown into the runtime
  lastGenerate,          \* behaviour of the generate() that produced the snapshot
  \* the inputs the specification draws from
  scope,
  \* an AgentSnapshotRunner: its cases, the case it is at, its results
  runner,
  \* a call of one of the program's functions on its own: arguments, result
  call,
  \* an AgentSnapshotNormalizer: its config, seenObjects, its patterns' lastIndex
  normalizer

agentVars == <<agentHooks, llmClient, isReplay, currentLoopIteration>>
storeVars == <<dirExists, snapLoops, actualFiles, otherEntries>>
hookVars == <<hookKind, isHooked, originalHooks, lastError, failures, hookCfg>>
procVars == <<pc, inv, run, result, nInv>>
histVars == <<preHooks, endHooks, overlapped, wrapperThrew, lastGenerate>>
vars == <<agentVars, storeVars, hookVars, procVars, histVars, scope, runner, call, normalizer>>

\* ------------------------------------------------------- snapshot store
\* File names are sequences of characters.  loop-<n> for the loops that
\* occur.
Digits == <<"0", "1", "2", "3">>
LoopPrefix == <<"l", "o", "o", "p", "-">>
LoopDirName(n) == LoopPrefix \o <<Digits[n + 1]>>

\* String.prototype.startsWith
StartsWith(str, prefix) ==
  Len(str) >= Len(prefix) /\ SubSeq(str, 1, Len(prefix)) = prefix

\* fs.readdirSync(this.snapshotPath), with what fs.statSync(...).isDirectory()
\* says of each entry.
ReaddirSync ==
  {[name |-> LoopDirName(n), isDirectory |-> TRUE] : n \in DOMAIN snapLoops}
    \cup otherEntries

\* AgentSnapshot.countLoops: the entries named loop-* that are directories.
CountLoops ==
  IF ~dirExists THEN 0
  ELSE Cardinality({e \in ReaddirSync : StartsWith(e.name, LoopPrefix) /\ e.isDirectory})

\* snapshotExists that looks at the directory only.
SnapshotExistsDirOnly == dirExists

\* AgentSnapshot.snapshotExists
SnapshotExists == dirExists /\ CountLoops > 0

EmptyLoopDir == [f \in ArtifactFiles |-> Absent]

\* Whole-file write of one artifact; the loop directory is created if absent.
WriteArtifact(loops, n, file, payload) ==
  IF n \in DOMAIN loops
    THEN [loops EXCEPT ![n][file] = payload]
    ELSE loops @@ (n :> [EmptyLoopDir EXCEPT ![file] = payload])

ReadArtifact(loops, n, file) ==
  IF n \in DOMAIN loops THEN loops[n][file] ELSE Absent

\* The default rule /id$/i -> '<<ID>>' applied to a payload; other members
\* are kept.
NormalizePayload(p) == [id |-> "<<ID>>", value |-> p.value]

\* AgentSnapshotNormalizer.compare(...).equal
CompareEqual(expected, actual) ==
  NormalizePayload(expected) = NormalizePayload(actual)

\* ------------------------------------------------------------ hook base
Wrappers(h) == [n \in HookNames |-> [kind |-> "wrapper", hook |-> h]]

\* Object.assign(target, source) on the nine extension points.
ObjectAssign(target, source) ==
  [n \in HookNames |-> IF n \in DOMAIN source THEN source[n] ELSE target[n]]

\* hookAgent without the isHooked guard: a second call backs up and installs
\* again.
HookAgentNoGuard(h) ==
  /\ originalHooks' = [originalHooks EXCEPT ![h] = agentHooks]
  /\ agentHooks' = Wrappers(h)
  /\ isHooked' = [isHooked EXCEPT ![h] = TRUE]

\* hookAgent that keeps no backup of the callbacks it overwrites.
HookAgentNoBackup(h) ==
  IF isHooked[h]
    THEN UNCHANGED <<agentHooks, isHooked, originalHooks>>
    ELSE /\ originalHooks' = [originalHooks EXCEPT ![h] = EmptyHooks]
         /\ agentHooks' = Wrappers(h)
         /\ isHooked' = [isHooked EXCEPT ![h] = TRUE]

\* AgentHookBase.hookAgent
HookAgent(h) ==
  IF isHooked[h]
    THEN UNCHANGED <<agentHooks, isHooked, originalHooks>>
    ELSE /\ originalHooks' = [originalHooks EXCEPT ![h] = agentHooks]
         /\ agentHooks' = Wrappers(h)
         /\ isHooked' = [isHooked EXCEPT ![h] = TRUE]

\* unhookAgent that does not empty the backup map.
UnhookAgentKeepsBackup(h) ==
  IF ~isHooked[h]
    THEN UNCHANGED <<agentHooks, isHooked, originalHooks>>
    ELSE /\ agentHooks' = ObjectAssign(agentHooks, originalHooks[h])
         /\ isHooked' = [isHooked EXCEPT ![h] = FALSE]
         /\ originalHooks' = originalHooks

\* unhookAgent that forgets to restore the callbacks.
UnhookAgentNoRestore(h) ==
  IF ~isHooked[h]
    THEN UNCHANGED <<agentHooks, isHooked, originalHooks>>
    ELSE /\ agentHooks' = agentHooks
         /\ isHooked' = [isHooked EXCEPT ![h] = FALSE]
         /\ originalHooks' = [originalHooks EXCEPT ![h] = EmptyHooks]

\* AgentHookBase.unhookAgent
UnhookAgent(h) ==
  IF ~isHooked[h]
    THEN UNCHANGED <<agentHooks, isHooked, originalHooks>>
    ELSE /\ agentHooks' = ObjectAssign(agentHooks, originalHooks[h])
         /\ isHooked' = [isHooked EXCEPT ![h] = FALSE]
         /\ originalHooks' = [originalHooks EXCEPT ![h] = EmptyHooks]

\* AgentHookBase.hasError / getLastError
HasError(h) == lastError[h] # NoError
GetLastError(h) == lastError[h]

\* The Error object of the hook's next failure.
NewError(h) == HookError(h, failures[h] + 1)

\* safeHook that keeps the first error it caught.
SafeHookFirstErrorWins(h, out) ==
  [ threw |-> FALSE,
    value |-> IF out.threw THEN Undefined ELSE out.value,
    lastError |-> IF out.threw /\ lastError[h] = NoError
                    THEN NewError(h) ELSE lastError[h],
    failed |-> out.threw ]

\* safeHook that re-throws what it caught.
SafeHookRethrow(h, out) ==
  [ threw |-> out.threw,
    value |-> IF out.threw THEN Undefined ELSE out.value,
    lastError |-> IF out.threw THEN NewError(h) ELSE lastError[h],
    failed |-> out.threw ]

\* safeHook whose catch block does not store the error.
SafeHookForgets(h, out) ==
  [ threw |-> FALSE,
    value |-> IF out.threw THEN Undefined ELSE out.value,
    lastError |-> lastError[h],
    failed |-> out.threw ]

\* safeHook that awaits the callback and drops what it returned.
SafeHookDropsValue(h, out) ==
  [ threw |-> FALSE,
    value |-> Undefined,
    lastError |-> IF out.threw THEN NewError(h) ELSE lastError[h],
    failed |-> out.threw ]

\* AgentHookBase.safeHook: await the callback; on a throw or a rejection
\* store the error and complete normally with no value.
SafeHook(h, out) ==
  [ threw |-> FALSE,
    value |-> IF out.threw THEN Undefined ELSE out.value,
    lastError |-> IF out.threw THEN NewError(h) ELSE lastError[h],
    failed |-> out.threw ]

\* ------------------------------------------------- the subclass callbacks
\* The artifact an extension point of the generate hook writes.
GenerateWrites ==
  [ onLLMRequest |-> "llm-request.jsonl",
    onLLMResponse |-> "llm-response.jsonl",
    onLLMStreamingResponse |-> "llm-response.jsonl",
    onAgentLoopEnd |-> "event-stream.jsonl",
    onAfterToolCall |-> "tool-calls.jsonl",
    onToolCallError |-> "tool-calls.jsonl" ]

\* A callback of the generate hook, at loop n with payload live. ioFails:
\* the write (or the callback) fails.
GenerateCallback(ep, n, live, ioFails) ==
  IF ioFails
    THEN [threw |-> TRUE, value |-> Undefined,
          loops |-> snapLoops, actual |-> actualFiles]
    ELSE [threw |-> FALSE, value |-> Undefined,
          loops |-> IF ep \in DOMAIN GenerateWrites
                      THEN WriteArtifact(snapLoops, n, GenerateWrites[ep], live)
                      ELSE snapLoops,
          actual |-> actualFiles]

\* The artifact an extension point of the replay hook verifies, and the
\* verification flag that enables it.
ReplayVerifies ==
  [ onLLMRequest |-> [file |-> "llm-request.jsonl", flag |-> "verifyLLMRequests"],
    onAgentLoopEnd |-> [file |-> "event-stream.jsonl", flag |-> "verifyEventStreams"],
    onProcessToolCalls |-> [file |-> "tool-calls.jsonl", flag |-> "verifyToolCalls"] ]

\* What onProcessToolCalls of the replay hook returns: the recorded results,
\* if the loop has any.
ReplayToolResults(ep, n) ==
  IF ep = "onProcessToolCalls"
     /\ ReadArtifact(snapLoops, n, "tool-calls.jsonl") # Absent
    THEN "recordedResults" ELSE Undefined

\* A callback of replay hook h, at loop n with payload live.
ReplayCallback(h, ep, n, live) ==
  LET cfg == hookCfg[h]
      same == [threw |-> FALSE, value |-> ReplayToolResults(ep, n),
               loops |-> snapLoops, actual |-> actualFiles]
  IN IF ep \notin DOMAIN ReplayVerifies THEN same
     ELSE LET v == ReplayVerifies[ep] IN
       IF ~cfg.verification[v.flag] THEN same
       ELSE IF n \notin DOMAIN snapLoops
         THEN [same EXCEPT !.threw = TRUE]
       ELSE IF CompareEqual(ReadArtifact(snapLoops, n, v.file), live)
         THEN same
       ELSE IF cfg.updateSnapshots
         THEN [same EXCEPT !.loops = WriteArtifact(snapLoops, n, v.file, live)]
       ELSE [same EXCEPT !.threw = TRUE,
                         !.actual = actualFiles \cup {<<n, v.file>>}]

\* --------------------------------------------------------- orchestrator
\* An optional value: None is `undefined`, Some(x) a given value.
None == <<>>
Some(x) == <<x>>

\* `a ?? b`
Coalesce(a, b) == IF a # None THEN a ELSE b

\* The options the orchestrator was constructed with.
Options == [updateSnapshots |-> None, verification |-> None, normalizerConfig |-> None]

VerificationFlags == {"verifyLLMRequests", "verifyEventStreams", "verifyToolCalls"}

\* `v?.flag`
OptionalFlag(v, flag) == IF v = None THEN None ELSE v[1][flag]

\* mergeVerificationSettings that takes the per-call object whole when it is
\* given, instead of flag by flag.
MergeVerificationSettingsWholesale(configVerification, options) ==
  LET v == Coalesce(configVerification, options.verification) IN
  [ f \in VerificationFlags |-> Coalesce(OptionalFlag(v, f), Some(TRUE))[1] ]

\* AgentSnapshot.mergeVerificationSettings
MergeVerificationSettings(configVerification, options) ==
  [ f \in VerificationFlags |->
      Coalesce(OptionalFlag(configVerification, f),
               Coalesce(OptionalFlag(options.verification, f), Some(TRUE)))[1] ]

\* The update mode resolved with || instead of ??.
ResolveUpdateSnapshotsOr(config, options) ==
  config.updateSnapshots = Some(TRUE) \/ options.updateSnapshots = Some(TRUE)

\* `config?.updateSnapshots ?? this.options.updateSnapshots ?? false`
ResolveUpdateSnapshots(config, options) ==
  Coalesce(config.updateSnapshots,
           Coalesce(options.updateSnapshots, Some(FALSE)))[1]

\* The members of an AgentNormalizerConfig.
NormalizerConfigMembers == {"fieldsToNormalize", "fieldsToIgnore", "customNormalizers"}

\* The normalizer configuration merged member by member: the per-call
\* member if it is given, else the constructor's.
ResolveNormalizerConfigMerged(config, options) ==
  IF config.normalizerConfig # None /\ options.normalizerConfig # None
    THEN Some([m \in NormalizerConfigMembers |->
                 Coalesce(config.normalizerConfig[1][m], options.normalizerConfig[1][m])])
    ELSE Coalesce(config.normalizerConfig, options.normalizerConfig)

\* `config?.normalizerConfig ?? this.options.normalizerConfig`
ResolveNormalizerConfig(config, options) ==
  Coalesce(config.normalizerConfig, options.normalizerConfig)

\* What test() hands to hook.setup(...) besides the loop count.
SetupOptions(config, options) ==
  [ updateSnapshots |-> ResolveUpdateSnapshots(config, options),
    normalizerConfig |-> ResolveNormalizerConfig(config, options),
    verification |-> MergeVerificationSettings(config.verification, options) ]

\* The per-call configurations test() is given.
TestConfigs ==
  [ updateSnapshots : {None, Some(TRUE)},
    verification : {None, Some([f \in VerificationFlags |-> Some(FALSE)])},
    normalizerConfig : {None} ]

NoBehaviour == [content |-> "none", loops |-> 0]
NoInvocation ==
  [ kind |-> "none", seq |-> 0, hook |-> 0, b |-> NoBehaviour,
    loopCount |-> 0, executedLoops |-> 0 ]
NoRun == [status |-> "none", loop |-> 0, step |-> "boundary", error |-> NoError]
NoResult ==
  [status |-> "none", error |-> NoError, loopCount |-> 0, ran |-> "none", executed |-> 0]
StartedRun == [status |-> "running", loop |-> 0, step |-> "boundary", error |-> NoError]

Pending(q) == pc[q] \notin {"idle", "done"}

\* A new invocation takes the lowest caller slot that is free.
CanBegin(p) ==
  /\ p \in scope.callers
  /\ ~Pending(p)
  /\ nInv < MaxInvocations
  /\ \A q \in Procs : q < p => Pending(q)

\* No callback on the agent and no backup map refers to hook h.
Unreferenced(h) ==
  /\ \A n \in HookNames : agentHooks[n].hook # h
  /\ \A g \in HookIds : \A n \in DOMAIN originalHooks[g] : originalHooks[g][n].hook # h

\* `const hook = new ...`: hook h comes to be, with no error. The hook of the
\* caller's previous invocation was a local of a call that has returned: it
\* is gone, unless its wrappers are still installed somewhere.
NewHook(p, h, kind, cfg, loadFails) ==
  LET gone == {g \in HookIds : g = inv[p].hook /\ Unreferenced(g)} IN
  /\ hookKind' = [g \in HookIds |->
       IF g = h THEN kind ELSE IF g \in gone THEN "none" ELSE hookKind[g]]
  /\ hookCfg' = [g \in HookIds |->
       IF g = h THEN cfg ELSE IF g \in gone THEN None ELSE hookCfg[g]]
  /\ failures' = [g \in HookIds |->
       IF g = h THEN (IF loadFails THEN 1 ELSE 0)
       ELSE IF g \in gone THEN 0 ELSE failures[g]]
  /\ lastError' = [g \in HookIds |->
       IF g = h THEN (IF loadFails THEN HookError(h, 1) ELSE NoError)
       ELSE IF g \in gone THEN NoError ELSE lastError[g]]

\* History kept when an invocation begins.
NoteBegin(p) ==
  /\ preHooks' = [preHooks EXCEPT ![p] = agentHooks]
  /\ overlapped' = [q \in Procs |->
       IF q = p THEN \E r \in Procs \ {p} : Pending(r)
       ELSE overlapped[q] \/ Pending(q)]

\* The invocation settles: the caller observes res. Kept with it: how the
\* run it awaited ended, and the loops that run executed.
Settle(p, res) ==
  /\ pc' = [pc EXCEPT ![p] = "done"]
  /\ result' = [result EXCEPT ![p] =
       [ status |-> res.status, error |-> res.error, loopCount |-> res.loopCount,
         ran |-> run[p].status, executed |-> run[p].loop ]]
  /\ run' = [run EXCEPT ![p] = NoRun]
  /\ endHooks' = [endHooks EXCEPT ![p] = agentHooks']

Fail(err) == [status |-> "fail", error |-> err, loopCount |-> 0]
Ok(n) == [status |-> "ok", error |-> NoError, loopCount |-> n]

\* generate(), up to `await this.agent.run(input)`: construct the hook (its
\* constructor ensures the snapshot directory), hookAgent(), start the run.
GenerateBegin(p) ==
  /\ CanBegin(p)
  /\ \E b \in scope.behaviours, faults \in scope.faultPlans :
       LET h == nInv + 1 IN
       /\ nInv' = h
       /\ inv' = [inv EXCEPT ![p] = [kind |-> "generate", seq |-> h, hook |-> h, b |-> b,
                                      loopCount |-> 0, executedLoops |-> 0]]
       /\ NewHook(p, h, "generate", [faults |-> faults], FALSE)
       /\ dirExists' = TRUE
       /\ HookAgent(h)
       /\ run' = [run EXCEPT ![p] = StartedRun]
       /\ pc' = [pc EXCEPT ![p] = "g_run"]
       /\ result' = [result EXCEPT ![p] = NoResult]
  /\ NoteBegin(p)
  /\ lastGenerate' = NoBehaviour
  /\ UNCHANGED <<llmClient, isReplay, currentLoopIteration, snapLoops, actualFiles, otherEntries,
                 endHooks, wrapperThrew, scope, runner, call, normalizer>>

\* generate() that does not look at the hook's error after the run.
GenerateResumeIgnoresHookError(p) ==
  /\ pc[p] = "g_run"
  /\ run[p].status \in {"returned", "threw"}
  /\ LET h == inv[p].hook IN
     /\ UnhookAgent(h)
     /\ Settle(p, IF run[p].status = "threw" THEN Fail(run[p].error)
                  ELSE Ok(CountLoops))
     /\ lastGenerate' = IF run[p].status = "returned" THEN inv[p].b ELSE NoBehaviour
  /\ UNCHANGED <<llmClient, isReplay, currentLoopIteration, storeVars,
                 hookKind, lastError, failures, hookCfg, inv, nInv,
                 preHooks, overlapped, wrapperThrew, scope, runner, call, normalizer>>

\* generate(), from the end of the run: the error check, countLoops, and the
\* finally block.
GenerateResume(p) ==
  /\ pc[p] = "g_run"
  /\ run[p].status \in {"returned", "threw"}
  /\ LET h == inv[p].hook IN
     /\ UnhookAgent(h)
     /\ Settle(p, IF run[p].status = "threw" THEN Fail(run[p].error)
                  ELSE IF HasError(h) THEN Fail(GetLastError(h))
                  ELSE Ok(CountLoops))
     /\ lastGenerate' = IF run[p].status = "returned" /\ ~HasError(h)
                          THEN inv[p].b ELSE NoBehaviour
  /\ UNCHANGED <<llmClient, isReplay, currentLoopIteration, storeVars,
                 hookKind, lastError, failures, hookCfg, inv, nInv,
                 preHooks, overlapped, wrapperThrew, scope, runner, call, normalizer>>

\* What setup() of the replay hook finds when it loads the recorded loops
\* 1..loopCount: a loop whose response artifact is missing cannot be served.
SetupLoadFails(loopCount) ==
  \E n \in 1..loopCount : ReadArtifact(snapLoops, n, "llm-response.jsonl") = Absent

\* test(), up to `await hook.setup(...)`: the existence check, the settings,
\* countLoops, the hook's construction, and setup(), which keeps the options,
\* installs the hook and loads the recorded loops.
TestBegin(p) ==
  /\ CanBegin(p)
  /\ \E b \in scope.behaviours, config \in scope.configs :
       LET h == nInv + 1
           loopCount == CountLoops
       IN
       /\ nInv' = h
       /\ IF ~SnapshotExists
            THEN /\ inv' = [inv EXCEPT ![p] = [kind |-> "test", seq |-> h, hook |-> 0, b |-> b,
                                                loopCount |-> 0, executedLoops |-> 0]]
                 /\ UNCHANGED <<agentHooks, isHooked, originalHooks, hookKind, hookCfg,
                                lastError, failures, dirExists>>
                 /\ Settle(p, Fail(SnapshotNotFound))
            ELSE /\ inv' = [inv EXCEPT ![p] = [kind |-> "test", seq |-> h, hook |-> h, b |-> b,
                                                loopCount |-> loopCount,
                                                executedLoops |-> 0]]
                 /\ NewHook(p, h, "replay",
                      [loopCount |-> loopCount] @@ SetupOptions(config, Options),
                      SetupLoadFails(loopCount))
                 /\ dirExists' = TRUE
                 /\ HookAgent(h)
                 /\ run' = [run EXCEPT ![p] = NoRun]
                 /\ pc' = [pc EXCEPT ![p] = "t_setup"]
                 /\ result' = [result EXCEPT ![p] = NoResult]
                 /\ UNCHANGED endHooks
       /\ lastGenerate' = IF SnapshotExists /\ ResolveUpdateSnapshots(config, Options)
                            THEN NoBehaviour ELSE lastGenerate
  /\ NoteBegin(p)
  /\ UNCHANGED <<llmClient, isReplay, currentLoopIteration, snapLoops, actualFiles, otherEntries,
                 wrapperThrew, scope, runner, call, normalizer>>

\* test() that starts the run without asking the hook for an error first.
TestAfterSetupIgnoresHookError(p) ==
  /\ pc[p] = "t_setup"
  /\ llmClient' = inv[p].hook
  /\ isReplay' = TRUE
  /\ run' = [run EXCEPT ![p] = StartedRun]
  /\ pc' = [pc EXCEPT ![p] = "t_run"]
  /\ UNCHANGED <<agentHooks, isHooked, originalHooks, result, endHooks>>
  /\ UNCHANGED <<currentLoopIteration, storeVars, hookKind, lastError, failures,
                 hookCfg, inv, nInv, preHooks, overlapped, wrapperThrew,
                 lastGenerate, scope, runner, call, normalizer>>

\* test(), from the end of setup() to `await this.agent.run(input)`.
TestAfterSetup(p) ==
  /\ pc[p] = "t_setup"
  /\ LET h == inv[p].hook IN
     IF HasError(h)
       THEN /\ UnhookAgent(h)
            /\ Settle(p, Fail(GetLastError(h)))
            /\ UNCHANGED <<llmClient, isReplay>>
       ELSE /\ llmClient' = h
            /\ isReplay' = TRUE
            /\ run' = [run EXCEPT ![p] = StartedRun]
            /\ pc' = [pc EXCEPT ![p] = "t_run"]
            /\ UNCHANGED <<agentHooks, isHooked, originalHooks, result, endHooks>>
  /\ UNCHANGED <<currentLoopIteration, storeVars, hookKind, lastError, failures,
                 hookCfg, inv, nInv, preHooks, overlapped, wrapperThrew,
                 lastGenerate, scope, runner, call, normalizer>>

\* The success path of test() after the run, up to
\* `await this.snapshotManager.cleanupAllActualFiles(...)`.
TestCleanup(p, executedLoops) ==
  /\ actualFiles' = {}
  /\ inv' = [inv EXCEPT ![p].executedLoops = executedLoops]
  /\ pc' = [pc EXCEPT ![p] = "t_cleanup"]
  /\ UNCHANGED <<agentHooks, isHooked, originalHooks, result, endHooks, run>>

\* A failure path of test() that also removes the scratch files.
TestFailsWithCleanup(p, err) ==
  /\ UnhookAgent(inv[p].hook)
  /\ Settle(p, Fail(err))
  /\ actualFiles' = {}
  /\ UNCHANGED inv

\* The failure paths of test() after the run: catch, finally.
TestFails(p, err) ==
  /\ UnhookAgent(inv[p].hook)
  /\ Settle(p, Fail(err))
  /\ UNCHANGED <<actualFiles, inv>>

\* test() that skips the loop count check in update mode.
TestResumeSkipsCheckOnUpdate(p) ==
  /\ pc[p] = "t_run"
  /\ run[p].status \in {"returned", "threw"}
  /\ LET h == inv[p].hook
         executedLoops == currentLoopIteration
     IN IF run[p].status = "threw" THEN TestFails(p, run[p].error)
        ELSE IF HasError(h) THEN TestFails(p, GetLastError(h))
        ELSE IF ~hookCfg[h].updateSnapshots /\ executedLoops # inv[p].loopCount
          THEN TestFails(p, LoopCountMismatch)
        ELSE TestCleanup(p, executedLoops)
  /\ UNCHANGED <<llmClient, isReplay, currentLoopIteration, dirExists, snapLoops, otherEntries,
                 hookKind, lastError, failures, hookCfg, nInv,
                 preHooks, overlapped, wrapperThrew, lastGenerate, scope, runner, call, normalizer>>

\* test(), from the end of the run: the error check and the loop count check.
TestResume(p) ==
  /\ pc[p] = "t_run"
  /\ run[p].status \in {"returned", "threw"}
  /\ LET h == inv[p].hook
         executedLoops == currentLoopIteration
     IN IF run[p].status = "threw" THEN TestFails(p, run[p].error)
        ELSE IF HasError(h) THEN TestFails(p, GetLastError(h))
        ELSE IF executedLoops # inv[p].loopCount THEN TestFails(p, LoopCountMismatch)
        ELSE TestCleanup(p, executedLoops)
  /\ UNCHANGED <<llmClient, isReplay, currentLoopIteration, dirExists, snapLoops, otherEntries,
                 hookKind, lastError, failures, hookCfg, nInv,
                 preHooks, overlapped, wrapperThrew, lastGenerate, scope, runner, call, normalizer>>

\* test() whose finally block also takes the synthetic client and the
\* replay flag off the runtime.
TestFinishRestoresClient(p) ==
  /\ pc[p] = "t_cleanup"
  /\ UnhookAgent(inv[p].hook)
  /\ Settle(p, Ok(inv[p].executedLoops))
  /\ llmClient' = 0
  /\ isReplay' = FALSE
  /\ UNCHANGED <<currentLoopIteration, storeVars,
                 hookKind, lastError, failures, hookCfg, inv, nInv,
                 preHooks, overlapped, wrapperThrew, lastGenerate, scope, runner, call, normalizer>>

\* test(), after the cleanup: the result, and the finally block.
TestFinish(p) ==
  /\ pc[p] = "t_cleanup"
  /\ UnhookAgent(inv[p].hook)
  /\ Settle(p, Ok(inv[p].executedLoops))
  /\ UNCHANGED <<llmClient, isReplay, currentLoopIteration, storeVars,
                 hookKind, lastError, failures, hookCfg, inv, nInv,
                 preHooks, overlapped, wrapperThrew, lastGenerate, scope, runner, call, normalizer>>

\* ---------------------------------------------------------- the runtime
Running(p) == pc[p] \in {"g_run", "t_run"} /\ run[p].status = "running"

\* The extension point the runtime calls after ep within one loop. value is
\* what onProcessToolCalls returned: with a result list the runtime skips its
\* own tool dispatch. toolFails: the dispatched tool throws.
NextStep(ep, value, toolFails) ==
  CASE ep = "onEachAgentLoopStart" -> "onLLMRequest"
    [] ep = "onLLMRequest" -> "onLLMStreamingResponse"
    [] ep = "onLLMStreamingResponse" -> "onLLMResponse"
    [] ep = "onLLMResponse" -> "onProcessToolCalls"
    [] ep = "onProcessToolCalls" ->
         IF value = Undefined THEN "onBeforeToolCall" ELSE "onAgentLoopEnd"
    [] ep = "onBeforeToolCall" ->
         IF toolFails THEN "onToolCallError" ELSE "onAfterToolCall"
    [] ep = "onAfterToolCall" -> "onAgentLoopEnd"
    [] ep = "onToolCallError" -> "onAgentLoopEnd"
    [] ep = "onAgentLoopEnd" -> "boundary"

\* The subclass callback behind a wrapper of hook h, called by p's run at
\* loop n.
CallbackOutcome(p, h, ep, n) ==
  LET live == Payload(inv[p].b.content, inv[p].hook)
  IN IF hookKind[h] = "generate"
       THEN GenerateCallback(ep, n, live, <<n, ep>> \in hookCfg[h].faults)
       ELSE ReplayCallback(h, ep, n, live)

\* p's run calls this.agent.<ep>(...) at loop n: the callback now set on the
\* agent runs, and the run goes on, or ends if the callback threw into it.
CallExtensionPoint(p, ep, n, toolFails) ==
  LET cb == agentHooks[ep] IN
  IF cb.kind = "original"
    THEN /\ run' = [run EXCEPT ![p].step = NextStep(ep, Undefined, toolFails),
                               ![p].loop = IF ep = "onEachAgentLoopStart" THEN n ELSE @]
         /\ UNCHANGED <<snapLoops, actualFiles, lastError, failures, wrapperThrew>>
    ELSE LET h == cb.hook
             out == CallbackOutcome(p, h, ep, n)
             w == SafeHook(h, out)
         IN /\ snapLoops' = out.loops
            /\ actualFiles' = out.actual
            /\ lastError' = [lastError EXCEPT ![h] = w.lastError]
            /\ failures' = [failures EXCEPT ![h] = IF w.failed THEN @ + 1 ELSE @]
            /\ wrapperThrew' = (wrapperThrew \/ w.threw)
            /\ run' = [run EXCEPT
                 ![p].step = NextStep(ep, w.value, toolFails),
                 ![p].loop = IF ep = "onEachAgentLoopStart" THEN n ELSE @,
                 ![p].status = IF w.threw THEN "threw" ELSE @,
                 ![p].error = IF w.threw THEN w.lastError ELSE @]

\* The runtime enters its next loop and calls onEachAgentLoopStart.
RunLoopStart(p) ==
  /\ Running(p)
  /\ run[p].step = "boundary"
  /\ run[p].loop < inv[p].b.loops
  /\ currentLoopIteration' = run[p].loop + 1
  /\ CallExtensionPoint(p, "onEachAgentLoopStart", run[p].loop + 1, FALSE)
  /\ UNCHANGED <<agentHooks, llmClient, isReplay, dirExists, otherEntries, hookKind, isHooked,
                 originalHooks, hookCfg, pc, inv, result, nInv,
                 preHooks, endHooks, overlapped, lastGenerate, scope, runner, call, normalizer>>

\* The runtime calls the next extension point of the current loop.
RunCall(p) ==
  /\ Running(p)
  /\ run[p].step \in HookNames
  /\ \E toolFails \in BOOLEAN :
       /\ toolFails => run[p].step = "onBeforeToolCall"
       /\ CallExtensionPoint(p, run[p].step, currentLoopIteration, toolFails)
  /\ UNCHANGED <<agentVars, dirExists, otherEntries, hookKind, isHooked, originalHooks, hookCfg,
                 pc, inv, result, nInv, preHooks, endHooks, overlapped,
                 lastGenerate, scope, runner, call, normalizer>>

\* The run has executed its loops: run() resolves.
RunReturns(p) ==
  /\ Running(p)
  /\ run[p].step = "boundary"
  /\ run[p].loop = inv[p].b.loops
  /\ run' = [run EXCEPT ![p].status = "returned"]
  /\ UNCHANGED <<agentVars, storeVars, hookVars, pc, inv, result, nInv, histVars, scope, runner, call, normalizer>>

\* The runtime itself fails, in the model call of a loop: run() rejects.
RunThrows(p) ==
  /\ Running(p)
  /\ run[p].step = "onLLMStreamingResponse"
  /\ run' = [run EXCEPT ![p].status = "threw", ![p].error = RunError]
  /\ UNCHANGED <<agentVars, storeVars, hookVars, pc, inv, result, nInv, histVars, scope, runner, call, normalizer>>

\* ------------------------------------------------------- the environment
\* The snapshot directory is removed from the disk after the orchestrator
\* was constructed and before it is first used.
RemoveSnapshotDirectory ==
  /\ nInv = 0
  /\ dirExists
  /\ dirExists' = FALSE
  /\ snapLoops' = <<>>
  /\ actualFiles' = {}
  /\ otherEntries' = {}
  /\ UNCHANGED <<agentVars, hookVars, procVars, histVars, scope, runner, call, normalizer>>

\* -------------------------------------------------------- specification
\* The loop directories an earlier generate() of n loops left on the disk.
EarlierSnapshot(n) ==
  [i \in 1..n |-> [f \in ArtifactFiles |-> Payload("c1", 0)]]

\* No function has been called on its own.
NoCall == [fn |-> "none"]

\* No normalizer has been constructed.
NoNormalizer == [config |-> "none"]

\* No batch runner has been constructed.
NoRunner == [mode |-> "none"]

\* The state after `new AgentSnapshot(agent, options)`.
Constructed ==
  /\ agentHooks = OriginalCallbacks
  /\ llmClient = 0
  /\ isReplay = FALSE
  /\ currentLoopIteration = 0
  /\ dirExists = TRUE
  /\ snapLoops \in {EarlierSnapshot(0), EarlierSnapshot(MaxLoops)}
  /\ actualFiles = {}
  /\ hookKind = [h \in HookIds |-> "none"]
  /\ isHooked = [h \in HookIds |-> FALSE]
  /\ originalHooks = [h \in HookIds |-> EmptyHooks]
  /\ lastError = [h \in HookIds |-> NoError]
  /\ failures = [h \in HookIds |-> 0]
  /\ hookCfg = [h \in HookIds |-> None]
  /\ pc = [p \in Procs |-> "idle"]
  /\ inv = [p \in Procs |-> NoInvocation]
  /\ run = [p \in Procs |-> NoRun]
  /\ result = [p \in Procs |-> NoResult]
  /\ nInv = 0
  /\ preHooks = [p \in Procs |-> OriginalCallbacks]
  /\ endHooks = [p \in Procs |-> OriginalCallbacks]
  /\ overlapped = [p \in Procs |-> FALSE]
  /\ wrapperThrew = FALSE
  /\ lastGenerate = NoBehaviour

\* One caller: each invocation begins after the previous one has settled.
Init ==
  /\ Constructed
  /\ call = NoCall
  /\ normalizer = NoNormalizer
  /\ otherEntries = {}
  /\ runner = NoRunner
  /\ scope = [ callers |-> {1}, behaviours |-> Behaviours,
               faultPlans |-> FaultPlans, configs |-> TestConfigs ]

\* Two callers, whose invocations may overlap.
InitOverlap ==
  /\ Constructed
  /\ call = NoCall
  /\ normalizer = NoNormalizer
  /\ otherEntries = {}
  /\ runner = NoRunner
  /\ scope = [ callers |-> {1, 2},
               behaviours |-> {b \in Behaviours : b.content = "c1" /\ b.loops = 1},
               faultPlans |-> {{}, {<<1, "onLLMRequest">>}},
               configs |-> {[updateSnapshots |-> None, verification |-> None,
                             normalizerConfig |-> None]} ]

Next ==
  \/ \E p \in Procs : GenerateBegin(p)
  \/ \E p \in Procs : GenerateResume(p)
  \/ \E p \in Procs : TestBegin(p)
  \/ \E p \in Procs : TestAfterSetup(p)
  \/ \E p \in Procs : TestResume(p)
  \/ \E p \in Procs : TestFinish(p)
  \/ \E p \in Procs : RunLoopStart(p)
  \/ \E p \in Procs : RunCall(p)
  \/ \E p \in Procs : RunReturns(p)
  \/ \E p \in Procs : RunThrows(p)
  \/ RemoveSnapshotDirectory

Spec == Init /\ [][Next]_vars

SpecOverlap == InitOverlap /\ [][Next]_vars

\* ------------------------------------------------------------ properties
Done(p) == pc[p] = "done"

\* The invocation of p has a hook (test() got past the existence check).
HasHook(p) == inv[p].hook # 0

\* C1: once a generate() or test() that overlapped no other invocation has
\* finished - with a result, on a hook error, on a loop count mismatch or on
\* a failed run - its hook is uninstalled and the nine callbacks of the
\* runtime are those set before the invocation began.
C1_CallbacksRestored ==
  \A p \in Procs :
    (Done(p) /\ ~overlapped[p]) =>
      /\ endHooks[p] = preHooks[p]
      /\ HasHook(p) =>
           /\ ~isHooked[inv[p].hook]
           /\ originalHooks[inv[p].hook] = EmptyHooks

\* A test() that overlapped nothing has failed on the loop count, after its
\* hook was installed over another one's callbacks or the original ones.
C1_Witness ==
  \E p \in Procs :
    /\ Done(p) /\ ~overlapped[p] /\ HasHook(p)
    /\ inv[p].kind = "test"
    /\ result[p].error = LoopCountMismatch
    /\ endHooks[p] = preHooks[p]

\* C2, as stated: after the run getLastError() is the error of the hook's
\* first failure.
C2_FirstErrorWins ==
  \A p \in Procs :
    (Done(p) /\ HasHook(p) /\ failures[inv[p].hook] >= 1) =>
      GetLastError(inv[p].hook) = HookError(inv[p].hook, 1)

\* C2, amended: a hook that has recorded no failure has no error; otherwise
\* its stored error is the error of its most recent failure - each failure
\* overwrites the one stored before.
C2_LastErrorWins ==
  \A h \in HookIds :
    GetLastError(h) =
      IF failures[h] = 0 THEN NoError ELSE HookError(h, failures[h])

\* Two or more callbacks of one hook have failed by the end of its run.
C2_Witness ==
  \E p \in Procs :
    /\ Done(p) /\ HasHook(p)
    /\ failures[inv[p].hook] >= 2
    /\ GetLastError(inv[p].hook) # HookError(inv[p].hook, 1)

\* C3: a failure of an instrumented callback never reaches the runtime: no
\* wrapper throws, a run ends early only by a failure of the runtime itself,
\* and a hook one of whose callbacks has failed has an error.
C3_FailureContained ==
  /\ ~wrapperThrew
  /\ \A h \in HookIds : failures[h] > 0 => HasError(h)
  /\ \A p \in Procs :
       /\ run[p].status = "threw" => run[p].error = RunError
       /\ (Done(p) /\ result[p].ran # "none"
             /\ result[p].executed < inv[p].b.loops) => result[p].error = RunError

\* A callback failed in loop 1 and the run went on to return after its last
\* loop.
C3_Witness ==
  \E p \in Procs :
    /\ run[p].status = "returned"
    /\ run[p].loop = MaxLoops
    /\ HasHook(p)
    /\ failures[inv[p].hook] >= 1
    /\ HasError(inv[p].hook)

\* C4, as stated: whenever the hook has recorded an error, generate() and
\* test() fail with the hook's recorded error, the hook uninstalled.
C4_FailsWithHookError ==
  \A p \in Procs :
    (Done(p) /\ HasHook(p) /\ HasError(inv[p].hook)) =>
      /\ result[p].status = "fail"
      /\ result[p].error = GetLastError(inv[p].hook)
      /\ ~isHooked[inv[p].hook]

\* C4, amended: whenever the hook has recorded an error, generate() and
\* test() return no result and the hook is uninstalled when they fail; they
\* fail with the hook's recorded error unless run() itself threw, and with
\* the error of run() if it did.
C4_FailsWithHookOrRunError ==
  \A p \in Procs :
    (Done(p) /\ HasHook(p) /\ HasError(inv[p].hook)) =>
      /\ result[p].status = "fail"
      /\ ~isHooked[inv[p].hook]
      /\ result[p].error =
           IF result[p].ran = "threw" THEN RunError ELSE GetLastError(inv[p].hook)

\* A run returned after its hook recorded an error, and the invocation
\* failed with that error.
C4_Witness ==
  \E p \in Procs :
    /\ Done(p) /\ HasHook(p)
    /\ result[p].ran = "returned"
    /\ result[p].status = "fail"
    /\ result[p].error = GetLastError(inv[p].hook)
    /\ result[p].error.type = "HookExecutionError"

TestRan(p) == Done(p) /\ inv[p].kind = "test" /\ HasHook(p) /\ result[p].ran # "none"

\* C6, as stated: test() returns a result only if the run executed as many
\* loops as the snapshot records, the result's loopCount being that number;
\* in every update mode a difference makes test() fail with the loop count
\* mismatch error.
C6_MismatchAlwaysReported ==
  \A p \in Procs :
    TestRan(p) =>
      /\ result[p].status = "ok" =>
           /\ result[p].executed = inv[p].loopCount
           /\ result[p].loopCount = inv[p].loopCount
      /\ (result[p].ran = "returned" /\ result[p].executed # inv[p].loopCount) =>
           result[p].error = LoopCountMismatch

\* C6, amended: test() returns a result only if the run executed as many
\* loops as the snapshot records, the result's loopCount being that number;
\* in every update mode a difference makes test() fail, with the loop count
\* mismatch error when run() returned and the hook recorded no error, and
\* with the error of run() or of the hook otherwise.
C6_MismatchNeverTolerated ==
  \A p \in Procs :
    TestRan(p) =>
      /\ result[p].status = "ok" =>
           /\ result[p].ran = "returned"
           /\ result[p].executed = inv[p].loopCount
           /\ result[p].loopCount = inv[p].loopCount
      /\ result[p].executed # inv[p].loopCount =>
           /\ result[p].status = "fail"
           /\ result[p].error =
                IF result[p].ran = "threw" THEN RunError
                ELSE IF HasError(inv[p].hook) THEN GetLastError(inv[p].hook)
                ELSE LoopCountMismatch

\* A test() in update mode has failed with the loop count mismatch error.
C6_Witness ==
  \E p \in Procs :
    /\ TestRan(p)
    /\ hookCfg[inv[p].hook].updateSnapshots
    /\ result[p].executed # inv[p].loopCount
    /\ result[p].error = LoopCountMismatch

AllSettled == nInv > 0 /\ \A p \in Procs : ~Pending(p)

\* C7: it is the overlap of invocations that corrupts the callback backup.
\* An invocation whose hook is installed finds other callbacks than its
\* wrappers on the runtime only if it overlapped another invocation; and
\* when all invocations have finished with callbacks on the runtime that
\* are not the original ones, invocations overlapped and the callbacks are
\* the wrappers of a hook that is no longer installed. The interleaving
\* that ends so is C7_Witness.
C7_BackupCorruptedByOverlap ==
  /\ \A p \in Procs :
       ( /\ Pending(p) /\ HasHook(p)
         /\ isHooked[inv[p].hook]
         /\ agentHooks # Wrappers(inv[p].hook) ) => overlapped[p]
  /\ (AllSettled /\ agentHooks # OriginalCallbacks) =>
       /\ \E p \in Procs : overlapped[p]
       /\ \E h \in HookIds : agentHooks = Wrappers(h) /\ ~isHooked[h]

\* Two invocations have overlapped and finished, and the wrappers of a
\* finished invocation's hook are still the callbacks of the runtime.
C7_Witness ==
  /\ AllSettled
  /\ \A p \in Procs : Done(p) /\ overlapped[p]
  /\ \E h \in HookIds :
       /\ hookKind[h] # "none"
       /\ ~isHooked[h]
       /\ agentHooks = Wrappers(h)

\* C8, as stated: after generate(input) has produced the snapshot, a test()
\* whose run behaves as the generating run did returns a result.
C8_RoundTrip ==
  \A p \in Procs :
    ( /\ TestRan(p)
      /\ lastGenerate = inv[p].b
      /\ result[p].ran = "returned" ) =>
        /\ result[p].status = "ok"
        /\ failures[inv[p].hook] = 0

\* C9, as stated: after generate() returns for a run of N loops the loop
\* directories are exactly loop-1..loop-N and the returned loopCount is N.
C9_ExactlyTheLoopsOfTheRun ==
  \A p \in Procs :
    (Done(p) /\ inv[p].kind = "generate" /\ result[p].status = "ok") =>
      /\ DOMAIN snapLoops = 1..result[p].executed
      /\ result[p].loopCount = result[p].executed

\* A step of a test() whose update mode is off: the invocation is pending
\* before the step, or begins with it.
TestStepUpdateOff(p) ==
  \/ /\ Pending(p)
     /\ inv[p].kind = "test"
     /\ ~hookCfg[inv[p].hook].updateSnapshots
  \/ /\ nInv' = nInv + 1
     /\ inv'[p].seq = nInv + 1
     /\ inv'[p].kind = "test"
     /\ inv'[p].hook # 0 => ~hookCfg'[inv'[p].hook].updateSnapshots

\* C10: with update mode off no step of test() changes a recorded artifact;
\* scratch files are deleted only by the success path of test(), after a
\* run that returned with no hook error and the recorded number of loops;
\* a failing test() leaves every scratch file in place.
C10_TestFrame ==
  [][ /\ \A p \in Procs : TestStepUpdateOff(p) => snapLoops' = snapLoops
      /\ (dirExists' /\ ~(actualFiles \subseteq actualFiles')) =>
           \E p \in Procs :
             /\ inv[p].kind = "test"
             /\ pc[p] = "t_run" /\ pc'[p] = "t_cleanup"
             /\ run[p].status = "returned"
             /\ ~HasError(inv[p].hook)
             /\ run[p].loop = inv[p].loopCount
      /\ \A p \in Procs :
           ( /\ inv'[p].kind = "test"
             /\ ~Done(p) /\ pc'[p] = "done"
             /\ result'[p].status = "fail" ) => actualFiles \subseteq actualFiles'
    ]_vars

\* A test() with update mode off has failed on a mismatch and its scratch
\* file is in place.
C10_Witness ==
  \E p \in Procs :
    /\ Done(p) /\ inv[p].kind = "test" /\ HasHook(p)
    /\ ~hookCfg[inv[p].hook].updateSnapshots
    /\ result[p].status = "fail"
    /\ actualFiles # {}

\* ------------------------------------------------ the settings of test()
\* A boolean option: not given, true or false.
OptionalBooleans == {None, Some(TRUE), Some(FALSE)}

\* A `verification` member: not given, or an object of three optional flags.
OptionalVerifications ==
  {None} \cup {Some(v) : v \in [VerificationFlags -> OptionalBooleans]}

\* The settings given at one level: to the constructor (AgentSnapshotOptions)
\* or to one test() call (TestRunConfig), no normalizerConfig among them.
SettingsLevels ==
  [updateSnapshots : OptionalBooleans, verification : OptionalVerifications,
   normalizerConfig : {None}]

NoScope == [callers |-> {}, behaviours |-> {}, faultPlans |-> {}, configs |-> {}]

\* An orchestrator constructed with some options, and a test() call about to
\* be made with some config.
InitSettings ==
  /\ Constructed
  /\ runner = NoRunner
  /\ scope = NoScope
  /\ normalizer = NoNormalizer
  /\ otherEntries = {}
  /\ call \in [fn : {"none"}, options : SettingsLevels, config : SettingsLevels,
               out : {None}]

\* this.mergeVerificationSettings(config?.verification)
CallMergeVerificationSettings ==
  /\ call.fn = "none"
  /\ call' = [call EXCEPT
       !.fn = "mergeVerificationSettings",
       !.out = MergeVerificationSettings(call.config.verification, call.options)]
  /\ UNCHANGED <<agentVars, storeVars, hookVars, procVars, histVars, scope, runner, normalizer>>

\* config?.updateSnapshots ?? this.options.updateSnapshots ?? false
CallResolveUpdateSnapshots ==
  /\ call.fn = "none"
  /\ call' = [call EXCEPT
       !.fn = "resolveUpdateSnapshots",
       !.out = ResolveUpdateSnapshots(call.config, call.options)]
  /\ UNCHANGED <<agentVars, storeVars, hookVars, procVars, histVars, scope, runner, normalizer>>

\* The options object test() builds for hook.setup(...).
CallSetupOptions ==
  /\ call.fn = "none"
  /\ call' = [call EXCEPT
       !.fn = "setupOptions",
       !.out = SetupOptions(call.config, call.options)]
  /\ UNCHANGED <<agentVars, storeVars, hookVars, procVars, histVars, scope, runner, normalizer>>

NextSettings ==
  \/ CallMergeVerificationSettings
  \/ CallResolveUpdateSnapshots
  \/ CallSetupOptions

SpecSettings == InitSettings /\ [][NextSettings]_vars

\* Flag f is given (true or false) in the verification member v.
FlagGiven(v, f) == v # None /\ v[1][f] # None

\* C11: each verification flag is the per-call value if that flag is given,
\* else the orchestrator option if that flag is given, else true - whatever
\* the other two flags are at either level.
C11_FlagPrecedence ==
  call.fn = "mergeVerificationSettings" =>
    \A f \in VerificationFlags :
      call.out[f] =
        IF FlagGiven(call.config.verification, f)
          THEN call.config.verification[1][f][1]
        ELSE IF FlagGiven(call.options.verification, f)
          THEN call.options.verification[1][f][1]
        ELSE TRUE

\* A per-call false has overridden an orchestrator-level true for one flag,
\* while another flag, given at the orchestrator level only, kept that value.
C11_Witness ==
  /\ call.fn = "mergeVerificationSettings"
  /\ FlagGiven(call.config.verification, "verifyLLMRequests")
  /\ FlagGiven(call.options.verification, "verifyLLMRequests")
  /\ call.config.verification[1]["verifyLLMRequests"] = Some(FALSE)
  /\ call.options.verification[1]["verifyLLMRequests"] = Some(TRUE)
  /\ ~FlagGiven(call.config.verification, "verifyToolCalls")
  /\ FlagGiven(call.options.verification, "verifyToolCalls")
  /\ call.options.verification[1]["verifyToolCalls"] = Some(FALSE)
  /\ call.out["verifyLLMRequests"] = FALSE
  /\ call.out["verifyToolCalls"] = FALSE

\* C12: the update mode test() hands to the replay hook is the per-call
\* updateSnapshots if given, else the orchestrator's option if given, else
\* false.
C12_UpdateModePrecedence ==
  call.fn \in {"resolveUpdateSnapshots", "setupOptions"} =>
    LET handed == IF call.fn = "setupOptions"
                    THEN call.out.updateSnapshots ELSE call.out
    IN handed =
         IF call.config.updateSnapshots # None THEN call.config.updateSnapshots[1]
         ELSE IF call.options.updateSnapshots # None
           THEN call.options.updateSnapshots[1]
         ELSE FALSE

\* A per-call false has overridden an orchestrator-level true in what
\* setup() is handed.
C12_Witness ==
  /\ call.fn = "setupOptions"
  /\ call.config.updateSnapshots = Some(FALSE)
  /\ call.options.updateSnapshots = Some(TRUE)
  /\ call.out.updateSnapshots = FALSE

\* ------------------------------------------------- one hook on its own
\* The callbacks an agent can have before a hook is installed: each
\* extension point has the runtime's own callback or one set by its user.
InitialCallbacks ==
  [HookNames -> {[kind |-> "original", hook |-> 0], [kind |-> "custom", hook |-> 0]}]

\* The hook whose hookAgent / unhookAgent are called.
TheHook == 1

MaxFailures == 2     \* failures the hook on its own meets

\* A hook has been constructed on an agent; nothing else writes the agent's
\* callbacks.
InitHook ==
  /\ agentHooks \in InitialCallbacks
  /\ preHooks = [p \in Procs |-> agentHooks]
  /\ endHooks = [p \in Procs |-> agentHooks]
  /\ llmClient = 0
  /\ isReplay = FALSE
  /\ currentLoopIteration = 0
  /\ dirExists = TRUE
  /\ snapLoops = EarlierSnapshot(0)
  /\ actualFiles = {}
  /\ otherEntries = {}
  /\ hookKind = [h \in HookIds |-> IF h = TheHook THEN "generate" ELSE "none"]
  /\ isHooked = [h \in HookIds |-> FALSE]
  /\ originalHooks = [h \in HookIds |-> EmptyHooks]
  /\ lastError = [h \in HookIds |-> NoError]
  /\ failures = [h \in HookIds |-> 0]
  /\ hookCfg = [h \in HookIds |-> None]
  /\ pc = [p \in Procs |-> "idle"]
  /\ inv = [p \in Procs |-> NoInvocation]
  /\ run = [p \in Procs |-> NoRun]
  /\ result = [p \in Procs |-> NoResult]
  /\ nInv = 0
  /\ overlapped = [p \in Procs |-> FALSE]
  /\ wrapperThrew = FALSE
  /\ lastGenerate = NoBehaviour
  /\ runner = NoRunner
  /\ scope = NoScope
  /\ call = [fn |-> "none", redundant |-> FALSE, failed |-> FALSE]
  /\ normalizer = NoNormalizer

\* hook.hookAgent() is called, in whatever state the hook is.
CallHookAgent ==
  /\ HookAgent(TheHook)
  /\ call' = [call EXCEPT !.fn = "hookAgent", !.redundant = isHooked[TheHook]]
  /\ UNCHANGED <<llmClient, isReplay, currentLoopIteration, storeVars,
                 hookKind, lastError, failures, hookCfg, procVars, histVars, scope, runner, normalizer>>

\* hook.unhookAgent() is called, in whatever state the hook is.
CallUnhookAgent ==
  /\ UnhookAgent(TheHook)
  /\ call' = [call EXCEPT !.fn = "unhookAgent", !.redundant = ~isHooked[TheHook]]
  /\ UNCHANGED <<llmClient, isReplay, currentLoopIteration, storeVars,
                 hookKind, lastError, failures, hookCfg, procVars, histVars, scope, runner, normalizer>>

\* The runtime calls one of the wrappers the installed hook has set on the
\* agent: safeHook runs the subclass callback, which returns or fails. Kept
\* as history in call.failed: a callback or a chunk write has failed since
\* the hook was constructed or its error last cleared.
CallWrapper ==
  /\ isHooked[TheHook]
  /\ \E threw \in BOOLEAN :
       /\ threw => failures[TheHook] < MaxFailures
       /\ \E w \in {SafeHook(TheHook, [threw |-> threw, value |-> Undefined])} :
            /\ lastError' = [lastError EXCEPT ![TheHook] = w.lastError]
            /\ failures' = [failures EXCEPT ![TheHook] = IF threw THEN @ + 1 ELSE @]
            /\ wrapperThrew' = (wrapperThrew \/ w.threw)
       /\ call' = [call EXCEPT !.fn = "wrapper", !.redundant = FALSE,
                               !.failed = @ \/ threw]
  /\ UNCHANGED <<agentVars, storeVars, hookKind, isHooked, originalHooks, hookCfg,
                 procVars, preHooks, endHooks, overlapped, lastGenerate,
                 scope, runner, normalizer>>

\* AgentHookBase.writeStreamingChunks: nothing is written for no chunks; a
\* failure of the write is caught and stored.
WriteStreamingChunks(h, chunks, writeFails) ==
  IF chunks = 0 THEN lastError[h]
  ELSE IF writeFails THEN NewError(h)
  ELSE lastError[h]

\* A callback of the subclass calls this.writeStreamingChunks(filePath, chunks).
CallWriteStreamingChunks ==
  /\ \E chunks \in 0..1, writeFails \in BOOLEAN :
       /\ (chunks > 0 /\ writeFails) => failures[TheHook] < MaxFailures
       /\ lastError' = [lastError EXCEPT
                          ![TheHook] = WriteStreamingChunks(TheHook, chunks, writeFails)]
       /\ failures' = [failures EXCEPT
                         ![TheHook] = IF chunks > 0 /\ writeFails THEN @ + 1 ELSE @]
       /\ call' = [call EXCEPT !.fn = "writeStreamingChunks", !.redundant = FALSE,
                               !.failed = @ \/ (chunks > 0 /\ writeFails)]
  /\ UNCHANGED <<agentVars, storeVars, hookKind, isHooked, originalHooks, hookCfg,
                 procVars, histVars, scope, runner, normalizer>>

\* AgentHookBase.clearError
ClearError(h) == [lastError EXCEPT ![h] = NoError]

\* hook.clearError()
CallClearError ==
  /\ lastError' = ClearError(TheHook)
  /\ call' = [call EXCEPT !.fn = "clearError", !.redundant = FALSE, !.failed = FALSE]
  /\ UNCHANGED <<agentVars, storeVars, hookKind, isHooked, originalHooks, failures,
                 hookCfg, procVars, histVars, scope, runner, normalizer>>

NextHook ==
  \/ CallHookAgent
  \/ CallUnhookAgent
  \/ CallWrapper
  \/ CallWriteStreamingChunks
  \/ CallClearError

SpecHook == InitHook /\ [][NextHook]_vars

\* C13: hookAgent() takes an uninstalled hook to installed and unhookAgent()
\* an installed one to uninstalled; hookAgent() on an installed hook and
\* unhookAgent() on an uninstalled one change neither the agent's callbacks
\* nor the backup map nor the state of the hook.
C13_RedundantCallsAreNoOps ==
  [][ /\ (call'.fn = "hookAgent" /\ isHooked[TheHook]) =>
           UNCHANGED <<agentHooks, originalHooks, isHooked>>
      /\ (call'.fn = "unhookAgent" /\ ~isHooked[TheHook]) =>
           UNCHANGED <<agentHooks, originalHooks, isHooked>>
      /\ (call'.fn = "hookAgent" /\ ~isHooked[TheHook]) =>
           isHooked' = [isHooked EXCEPT ![TheHook] = TRUE]
      /\ (call'.fn = "unhookAgent" /\ isHooked[TheHook]) =>
           isHooked' = [isHooked EXCEPT ![TheHook] = FALSE]
    ]_vars

\* hookAgent() has been called on an installed hook over callbacks set by
\* the user: the backup map still holds those, not the hook's wrappers.
C13_Witness ==
  /\ call.fn = "hookAgent"
  /\ call.redundant
  /\ isHooked[TheHook]
  /\ originalHooks[TheHook] # Wrappers(TheHook)
  /\ originalHooks[TheHook]["onLLMRequest"].kind = "custom"

\* C14: whatever hookAgent() / unhookAgent() calls were made on the hook,
\* while it is not installed the agent's nine callbacks are those it had
\* before the first hookAgent() and the backup map is empty; while it is
\* installed all nine are the hook's wrappers and the backup map holds the
\* nine callbacks from before.
C14_HookStateInvariant ==
  IF isHooked[TheHook]
    THEN /\ agentHooks = Wrappers(TheHook)
         /\ originalHooks[TheHook] = preHooks[1]
    ELSE /\ agentHooks = preHooks[1]
         /\ originalHooks[TheHook] = EmptyHooks

\* The hook has been installed and uninstalled again, over callbacks some of
\* which were set by the user, and a redundant unhookAgent() followed.
C14_Witness ==
  /\ call.fn = "unhookAgent"
  /\ call.redundant
  /\ ~isHooked[TheHook]
  /\ agentHooks["onLLMRequest"].kind = "custom"
  /\ agentHooks["onAgentLoopEnd"].kind = "original"

\* ------------------------------------------------------- the normalizer
\* Keys and paths are sequences of characters, so that patterns are matched
\* against them as the code matches them.
KEmpty == <<>>
KSessionId == <<"s", "e", "s", "s", "i", "o", "n", "I", "d">>
KValue == <<"v", "a", "l", "u", "e">>
KV == <<"v">>
Keys == {KEmpty, KSessionId, KValue, KV}

\* String.prototype.toLowerCase on the characters that occur.
Lower(c) ==
  CASE c = "I" -> "i"
    [] c = "C" -> "c"
    [] c = "T" -> "t"
    [] c = "M" -> "m"
    [] OTHER -> c

Fold(str) == [i \in 1..Len(str) |-> Lower(str[i])]

\* JavaScript values.  A member is [k |-> key, v |-> value]; an object holds
\* its members in insertion order, an array its items.  A "ref" names an
\* object of the heap; an "obj" or "arr" written in place is an object no
\* other value refers to.
JsUndefined == [t |-> "undefined", s |-> "", o |-> <<>>]
JsNull == [t |-> "null", s |-> "", o |-> <<>>]
Num(text) == [t |-> "number", s |-> text, o |-> <<>>]
Str(text) == [t |-> "string", s |-> text, o |-> <<>>]
Ref(id) == [t |-> "ref", s |-> id, o |-> <<>>]
Obj(members) == [t |-> "obj", s |-> "", o |-> members]
Arr(items) == [t |-> "arr", s |-> "", o |-> items]
Member(key, value) == [k |-> key, v |-> value]

\* The marker normalize() returns for an object it has already seen.
Circular == Str("[Circular]")

\* A pattern: a string, or a RegExp of a literal with optional ^ and $ and
\* the flags i and g.
StringPattern(text) ==
  [kind |-> "string", source |-> text, anchorStart |-> FALSE,
   anchorEnd |-> FALSE, ignoreCase |-> FALSE, global |-> FALSE]
RegExp(text, anchorStart, anchorEnd, ignoreCase, global) ==
  [kind |-> "regexp", source |-> text, anchorStart |-> anchorStart,
   anchorEnd |-> anchorEnd, ignoreCase |-> ignoreCase, global |-> global]

\* /text/i and /text$/i, the two forms DEFAULT_CONFIG uses.
Containing(text) == RegExp(text, FALSE, FALSE, TRUE, FALSE)
EndingIn(text) == RegExp(text, FALSE, TRUE, TRUE, FALSE)

Rule(pattern, replacement) == [pattern |-> pattern, replacement |-> replacement]

\* DEFAULT_CONFIG.fieldsToNormalize, in its order.
DefaultFieldsToNormalize ==
  << Rule(EndingIn(<<"i", "d">>), Str("<<ID>>")),
     Rule(Containing(<<"t", "i", "m", "e", "s", "t", "a", "m", "p">>), Str("<<TIMESTAMP>>")),
     Rule(Containing(<<"c", "r", "e", "a", "t", "e", "d">>), Str("<<TIMESTAMP>>")),
     Rule(Containing(<<"s", "t", "a", "r", "t", "T", "i", "m", "e">>), Str("<<TIMESTAMP>>")),
     Rule(Containing(<<"e", "l", "a", "p", "s", "e", "d", "M", "s">>), Str("<<ELAPSED_MS>>")),
     Rule(Containing(<<"t", "t", "f", "t", "M", "s">>), Str("<<TTFT_MS>>")),
     Rule(Containing(<<"t", "t", "l", "t", "M", "s">>), Str("<<TTLT_MS>>")),
     Rule(Containing(<<"e", "x", "e", "c", "u", "t", "i", "o", "n", "T", "i", "m", "e">>),
          Str("<<EXECUTION_TIME>>")),
     Rule(Containing(<<"t", "o", "o", "l", "C", "a", "l", "l", "I", "d">>), Str("<<TOOL_CALL_ID>>")),
     Rule(Containing(<<"s", "e", "s", "s", "i", "o", "n", "I", "d">>), Str("<<SESSION_ID>>")),
     Rule(Containing(<<"m", "e", "s", "s", "a", "g", "e", "I", "d">>), Str("<<MESSAGE_ID>>")),
     Rule(Containing(<<"i", "m", "a", "g", "e", "_", "u", "r", "l">>), Str("<<IMAGE_URL>>")) >>

\* A constructor that puts the caller's rules before the defaults.
NormalizerConfigCallerFirst(config) ==
  [fieldsToNormalize |-> config.fieldsToNormalize \o DefaultFieldsToNormalize,
   fieldsToIgnore |-> config.fieldsToIgnore,
   customNormalizers |-> config.customNormalizers]

\* new AgentSnapshotNormalizer(config): the caller's lists come after the
\* defaults.
NormalizerConfig(config) ==
  [fieldsToNormalize |-> DefaultFieldsToNormalize \o config.fieldsToNormalize,
   fieldsToIgnore |-> config.fieldsToIgnore,
   customNormalizers |-> config.customNormalizers]

\* The configurations a normalizer is constructed with.
NoConfig == [fieldsToNormalize |-> <<>>, fieldsToIgnore |-> <<>>, customNormalizers |-> <<>>]
CallerConfigs ==
  { NoConfig,
    [NoConfig EXCEPT !.fieldsToIgnore = <<StringPattern(KValue)>>],
    [NoConfig EXCEPT !.fieldsToIgnore = <<StringPattern(KV \o <<".">> \o KSessionId)>>],
    [NoConfig EXCEPT !.fieldsToIgnore = <<Containing(KSessionId)>>],
    [NoConfig EXCEPT !.fieldsToIgnore = <<RegExp(KV, TRUE, FALSE, FALSE, TRUE)>>],
    [NoConfig EXCEPT !.fieldsToNormalize =
       <<Rule(StringPattern(KValue), Str("<<VALUE>>")),
         Rule(StringPattern(KSessionId), Str("<<MINE>>"))>>],
    [NoConfig EXCEPT !.customNormalizers =
       <<[pattern |-> StringPattern(KV), normalizer |-> "throws"]>>],
    [NoConfig EXCEPT !.customNormalizers =
       <<[pattern |-> StringPattern(KSessionId), normalizer |-> "first"],
         [pattern |-> EndingIn(<<"I", "d">>), normalizer |-> "second"]>>],
    [NoConfig EXCEPT !.fieldsToNormalize = <<Rule(StringPattern(KV), JsUndefined)>>,
                     !.customNormalizers =
       <<[pattern |-> StringPattern(KSessionId), normalizer |-> "undefined"]>>] }

\* Every pattern of a configuration is matched from the start of the string.
Stateless(config) ==
  \A list \in {[i \in DOMAIN config.fieldsToIgnore |-> config.fieldsToIgnore[i]],
               [i \in DOMAIN config.fieldsToNormalize |-> config.fieldsToNormalize[i].pattern],
               [i \in DOMAIN config.customNormalizers |-> config.customNormalizers[i].pattern]} :
    \A i \in DOMAIN list : ~list[i].global

\* The positions, not before `from`, where the pattern's literal occurs.
MatchPositions(re, str, from) ==
  LET hay == IF re.ignoreCase THEN Fold(str) ELSE str
      needle == IF re.ignoreCase THEN Fold(re.source) ELSE re.source
  IN {i \in from..(Len(str) - Len(needle)) :
        /\ re.anchorStart => i = 0
        /\ re.anchorEnd => i + Len(needle) = Len(str)
        /\ SubSeq(hay, i + 1, i + Len(needle)) = needle}

Min(S) == CHOOSE x \in S : \A y \in S : x <= y

\* RegExp.prototype.test: a global pattern starts at its lastIndex and
\* leaves it after the match, or at 0 when there is none.
TestOutcome(re, lastIndex, positions) ==
  [hit |-> positions # {},
   lastIndex |-> IF ~re.global THEN lastIndex
                 ELSE IF positions = {} THEN 0
                 ELSE Min(positions) + Len(re.source)]

RegExpTest(re, str, lastIndex) ==
  TestOutcome(re, lastIndex, MatchPositions(re, str, IF re.global THEN lastIndex ELSE 0))

\* pattern.test(key) || pattern.test(path), the key having been tested.
OrTestPath(pattern, path, onKey) ==
  IF onKey.hit THEN onKey ELSE RegExpTest(pattern, path, onKey.lastIndex)

\* matchesPattern(pattern, key, path), and the body of shouldIgnoreField's
\* callback, which is the same.
MatchesPattern(pattern, key, path, lastIndex) ==
  IF pattern.kind = "regexp"
    THEN OrTestPath(pattern, path, RegExpTest(pattern, key, lastIndex))
    ELSE [hit |-> key = pattern.source \/ path = pattern.source, lastIndex |-> lastIndex]

\* The first pattern of the list, from the i-th on, that matches: its index
\* (0 when none does) and the patterns' lastIndex afterwards.
RECURSIVE FirstMatch(_, _, _, _, _)
RECURSIVE FirstMatchAfter(_, _, _, _, _, _)
FirstMatch(patterns, i, key, path, lastIndex) ==
  IF i > Len(patterns) THEN [index |-> 0, lastIndex |-> lastIndex]
  ELSE FirstMatchAfter(patterns, i, key, path, lastIndex,
                       MatchesPattern(patterns[i], key, path, lastIndex[i]))

FirstMatchAfter(patterns, i, key, path, lastIndex, m) ==
  IF m.hit THEN [index |-> i, lastIndex |-> [lastIndex EXCEPT ![i] = m.lastIndex]]
  ELSE FirstMatch(patterns, i + 1, key, path, [lastIndex EXCEPT ![i] = m.lastIndex])

PatternsOf(list) == [i \in DOMAIN list |-> list[i].pattern]

\* shouldIgnoreField(key, path), m being what the search of fieldsToIgnore
\* gave.
IgnoreOutcome(lastIndex, m) ==
  [hit |-> m.index > 0, lastIndex |-> [lastIndex EXCEPT !.fieldsToIgnore = m.lastIndex]]

ShouldIgnoreField(config, key, path, lastIndex) ==
  IgnoreOutcome(lastIndex,
                FirstMatch(config.fieldsToIgnore, 1, key, path, lastIndex.fieldsToIgnore))

\* What a custom normalizer does with the value it is given: the callers'
\* functions throw, return nothing, or return a fixed string.
CustomNormalizer(fn, value) ==
  CASE fn = "throws" -> [v |-> JsUndefined, err |-> "NormalizerError"]
    [] fn = "undefined" -> [v |-> JsUndefined, err |-> "none"]
    [] fn \in {"first", "second"} -> [v |-> Str(fn), err |-> "none"]
    [] OTHER -> [v |-> value, err |-> "none"]

\* `return normalizer(value, path)`, out being what the normalizer did.
CustomOutcome(lastIndex, c, out) ==
  [v |-> out.v, err |-> out.err,
   custom |-> IF out.err # "none" THEN "threw" ELSE "returned",
   lastIndex |-> [lastIndex EXCEPT !.customNormalizers = c.lastIndex]]

\* The same inside a try/catch that goes on to the traversal of the value.
CustomOutcomeSwallows(lastIndex, c, out) ==
  [v |-> IF out.err # "none" THEN JsUndefined ELSE out.v, err |-> "none",
   custom |-> IF out.err # "none" THEN "threw" ELSE "returned",
   lastIndex |-> [lastIndex EXCEPT !.customNormalizers = c.lastIndex]]

\* The loop over fieldsToNormalize, r being what its search gave.
RuleOutcome(config, lastIndex, c, r) ==
  [v |-> IF r.index > 0 THEN config.fieldsToNormalize[r.index].replacement ELSE JsUndefined,
   err |-> "none", custom |-> "none",
   lastIndex |-> [lastIndex EXCEPT !.customNormalizers = c.lastIndex,
                                   !.fieldsToNormalize = r.lastIndex]]

\* normalizeField once customNormalizers has been searched.
AfterCustomNormalizers(config, key, value, path, lastIndex, c) ==
  IF c.index > 0
    THEN CustomOutcome(lastIndex, c,
           CustomNormalizer(config.customNormalizers[c.index].normalizer, value))
    ELSE RuleOutcome(config, lastIndex, c,
           FirstMatch(PatternsOf(config.fieldsToNormalize), 1, key, path,
                      lastIndex.fieldsToNormalize))

AfterCustomNormalizersSwallows(config, key, value, path, lastIndex, c) ==
  IF c.index > 0
    THEN CustomOutcomeSwallows(lastIndex, c,
           CustomNormalizer(config.customNormalizers[c.index].normalizer, value))
    ELSE RuleOutcome(config, lastIndex, c,
           FirstMatch(PatternsOf(config.fieldsToNormalize), 1, key, path,
                      lastIndex.fieldsToNormalize))

\* normalizeField with a try/catch around the custom normalizer.
NormalizeFieldSwallows(config, key, value, path, lastIndex) ==
  AfterCustomNormalizersSwallows(config, key, value, path, lastIndex,
    FirstMatch(PatternsOf(config.customNormalizers), 1, key, path,
               lastIndex.customNormalizers))

\* normalizeField(key, value, path): the value to substitute (undefined when
\* no rule matches), the error it throws, and what the custom normalizer it
\* called did.
NormalizeField(config, key, value, path, lastIndex) ==
  AfterCustomNormalizers(config, key, value, path, lastIndex,
    FirstMatch(PatternsOf(config.customNormalizers), 1, key, path,
               lastIndex.customNormalizers))

\* `[${index}]`, for the indices that occur.
IndexSuffix(i) == <<"[", Digits[i], "]">>

\* The identity of an object: its name in the heap, or, for an object
\* written in place, where it stands in the value that holds it.
Identity(obj, at) ==
  IF obj.t = "ref" THEN [heap |-> obj.s, at |-> <<>>] ELSE [heap |-> "", at |-> at]

\* What a traversal carries along: seenObjects, the patterns' lastIndex, the
\* error that ended it, and two observations: an object was entered again
\* below itself, a custom normalizer threw.
Traversal(seenObjects, lastIndex) ==
  [seen |-> seenObjects, lastIndex |-> lastIndex, err |-> "none",
   reentered |-> FALSE, customThrew |-> FALSE]

\* const currentPath = path ? `${path}.${key}` : key
CurrentPath(path, key) == IF path # <<>> THEN path \o <<".">> \o key ELSE key

\* The traversal after normalizeField has answered for a member.
AfterField(st, normalized) ==
  [st EXCEPT !.lastIndex = normalized.lastIndex,
             !.err = normalized.err,
             !.customThrew = @ \/ normalized.custom = "threw"]

\* normalize(obj, path).  `active` holds the calls this one is nested in, as
\* [id, path]: a call nested in an equal call of an equal seenObjects never
\* returns, and ends in the engine's RangeError when the stack is exhausted.
RECURSIVE Normalize(_, _, _, _, _, _, _)
RECURSIVE NormalizeMembers(_, _, _, _, _, _, _, _, _)
RECURSIVE NormalizeItems(_, _, _, _, _, _, _, _, _)
RECURSIVE ItemNormalized(_, _, _, _, _, _, _, _, _)
RECURSIVE MemberTested(_, _, _, _, _, _, _, _, _, _)
RECURSIVE MemberSubstituted(_, _, _, _, _, _, _, _, _, _)
RECURSIVE MemberNormalized(_, _, _, _, _, _, _, _, _)
Normalize(heap, config, obj, path, at, active, st0) ==
  LET st1 == IF path = <<>> THEN [st0 EXCEPT !.seen = {}] ELSE st0
  IN IF obj.t \in {"null", "undefined", "number", "string"}
       THEN [v |-> obj, st |-> st1]
       ELSE
         LET id == Identity(obj, at)
             target == IF obj.t = "ref" THEN heap[obj.s] ELSE obj
             here == [id |-> id, path |-> path]
             st2 == [st1 EXCEPT !.seen = @ \cup {id},
                                !.reentered = @ \/ (\E a \in active : a.id = id)]
         IN IF id \in st1.seen THEN [v |-> Circular, st |-> st1]
            ELSE IF here \in active
              THEN [v |-> JsUndefined, st |-> [st2 EXCEPT !.err = "RangeError"]]
            ELSE IF target.t = "arr"
              THEN NormalizeItems(heap, config, target.o, 1, path, at,
                                  active \cup {here}, st2, <<>>)
              ELSE NormalizeMembers(heap, config, target.o, 1, path, at,
                                    active \cup {here}, st2, <<>>)

NormalizeItems(heap, config, items, i, path, at, active, st, res) ==
  IF st.err # "none" THEN [v |-> JsUndefined, st |-> st]
  ELSE IF i > Len(items) THEN [v |-> Arr(res), st |-> st]
  ELSE ItemNormalized(heap, config, items, i, path, at, active, res,
                      Normalize(heap, config, items[i], path \o IndexSuffix(i),
                                at \o <<i>>, active, st))

\* The rest of the map once item i has been normalized to r.
ItemNormalized(heap, config, items, i, path, at, active, res, r) ==
  NormalizeItems(heap, config, items, i + 1, path, at, active, r.st, Append(res, r.v))

\* The loop over Object.entries(obj), from the i-th member on.
NormalizeMembers(heap, config, members, i, path, at, active, st, res) ==
  IF st.err # "none" THEN [v |-> JsUndefined, st |-> st]
  ELSE IF i > Len(members) THEN [v |-> Obj(res), st |-> st]
  ELSE MemberTested(heap, config, members, i, path, at, active, st, res,
                    ShouldIgnoreField(config, members[i].k, CurrentPath(path, members[i].k),
                                      st.lastIndex))

\* The body of the loop once shouldIgnoreField has answered.
MemberTested(heap, config, members, i, path, at, active, st, res, ignore) ==
  IF ignore.hit
    THEN NormalizeMembers(heap, config, members, i + 1, path, at, active,
                          [st EXCEPT !.lastIndex = ignore.lastIndex], res)
    ELSE MemberSubstituted(heap, config, members, i, path, at, active, st, res,
                           NormalizeField(config, members[i].k, members[i].v,
                                          CurrentPath(path, members[i].k),
                                          ignore.lastIndex))

\* The body of the loop once normalizeField has answered.
MemberSubstituted(heap, config, members, i, path, at, active, st, res, normalized) ==
  IF normalized.err # "none" \/ normalized.v # JsUndefined
    THEN NormalizeMembers(heap, config, members, i + 1, path, at, active,
                          AfterField(st, normalized),
                          Append(res, Member(members[i].k, normalized.v)))
    ELSE MemberNormalized(heap, config, members, i, path, at, active, res,
                          Normalize(heap, config, members[i].v,
                                    CurrentPath(path, members[i].k), at \o <<i>>,
                                    active, AfterField(st, normalized)))

\* The rest of the loop once member i has been normalized to r.
MemberNormalized(heap, config, members, i, path, at, active, res, r) ==
  NormalizeMembers(heap, config, members, i + 1, path, at, active, r.st,
                   Append(res, Member(members[i].k, r.v)))

\* What normalize(obj) gives its caller, r being what the traversal gave.
Returned(n, r) ==
  [threw |-> r.st.err,
   out |-> IF r.st.err = "none" THEN r.v ELSE JsUndefined,
   reentered |-> r.st.reentered,
   customThrew |-> r.st.customThrew,
   normalizer |-> [n EXCEPT !.seenObjects = r.st.seen, !.lastIndex = r.st.lastIndex]]

\* A call normalize(obj) on the normalizer n: what it returns or throws, and
\* the normalizer afterwards.
NormalizeCall(heap, n, obj) ==
  Returned(n, Normalize(heap, n.config, obj, <<>>, <<>>, {},
                        Traversal(n.seenObjects, n.lastIndex)))

\* stringify(value) of fast-json-stable-stringify, up to the order it gives
\* the keys: members whose value is undefined are left out, items that are
\* undefined become null, undefined has no string.
RECURSIVE Stringify(_)
Stringify(v) ==
  CASE v.t = "obj" ->
         [t |-> "obj", s |-> "",
          o |-> {[k |-> v.o[i].k, v |-> Stringify(v.o[i].v)] :
                   i \in {j \in DOMAIN v.o : v.o[j].v.t # "undefined"}}]
    [] v.t = "arr" ->
         [t |-> "arr", s |-> "",
          o |-> {[k |-> IndexSuffix(i),
                  v |-> Stringify(IF v.o[i].t = "undefined" THEN JsNull ELSE v.o[i])] :
                   i \in DOMAIN v.o}]
    [] OTHER -> [t |-> v.t, s |-> v.s, o |-> {}]

\* A line of JSON.stringify(value, null, 2).
Line(indent, key, t, text, comma) ==
  [indent |-> indent, key |-> key, t |-> t, s |-> text, comma |-> comma]
NoKey == <<"-">>
Quoted(key) == <<"'">> \o key

\* The lines of a value printed at the given depth under the given key.
RECURSIVE JsonLines(_, _, _, _)
RECURSIVE JsonMemberLines(_, _, _)
RECURSIVE JsonItemLines(_, _, _)
Present(v) == SelectSeq(v.o, LAMBDA m : m.v.t # "undefined")
JsonLines(v, indent, key, comma) ==
  CASE v.t = "obj" ->
         IF Present(v) = <<>> THEN <<Line(indent, key, "{}", "", comma)>>
         ELSE <<Line(indent, key, "{", "", FALSE)>>
              \o JsonMemberLines(Present(v), 1, indent + 1)
              \o <<Line(indent, NoKey, "}", "", comma)>>
    [] v.t = "arr" ->
         IF v.o = <<>> THEN <<Line(indent, key, "[]", "", comma)>>
         ELSE <<Line(indent, key, "[", "", FALSE)>>
              \o JsonItemLines(v.o, 1, indent + 1)
              \o <<Line(indent, NoKey, "]", "", comma)>>
    [] v.t = "undefined" -> <<Line(indent, key, "null", "", comma)>>
    [] OTHER -> <<Line(indent, key, v.t, v.s, comma)>>

JsonMemberLines(members, i, indent) ==
  IF i > Len(members) THEN <<>>
  ELSE JsonLines(members[i].v, indent, Quoted(members[i].k), i < Len(members))
       \o JsonMemberLines(members, i + 1, indent)

JsonItemLines(items, i, indent) ==
  IF i > Len(items) THEN <<>>
  ELSE JsonLines(items[i], indent, NoKey, i < Len(items))
       \o JsonItemLines(items, i + 1, indent)

\* JSON.stringify(value, null, 2): undefined for undefined.
JsonStringify(v) == IF v.t = "undefined" THEN None ELSE Some(JsonLines(v, 0, NoKey, FALSE))

RECURSIVE GenerateSimpleDiffRemovedOnly(_, _, _)
RECURSIVE GenerateSimpleDiff(_, _, _)

\* generateSimpleDiff that leaves out the lines of the actual side.
GenerateSimpleDiffRemovedOnly(expectedLines, actualLines, i) ==
  IF i > Len(expectedLines) /\ i > Len(actualLines) THEN <<>>
  ELSE LET expectedLine == IF i <= Len(expectedLines) THEN <<expectedLines[i]>> ELSE <<>>
           actualLine == IF i <= Len(actualLines) THEN <<actualLines[i]>> ELSE <<>>
       IN (IF expectedLine # actualLine
             THEN [j \in DOMAIN expectedLine |-> [sign |-> "-", line |-> expectedLine[j]]]
             ELSE <<>>)
          \o GenerateSimpleDiffRemovedOnly(expectedLines, actualLines, i + 1)

\* generateSimpleDiff(expected, actual) on the two texts' lines, after its
\* two header lines: "- line" and "+ line" for each position that differs.
GenerateSimpleDiff(expectedLines, actualLines, i) ==
  IF i > Len(expectedLines) /\ i > Len(actualLines) THEN <<>>
  ELSE LET expectedLine == IF i <= Len(expectedLines) THEN <<expectedLines[i]>> ELSE <<>>
           actualLine == IF i <= Len(actualLines) THEN <<actualLines[i]>> ELSE <<>>
       IN (IF expectedLine # actualLine
             THEN [j \in DOMAIN expectedLine |-> [sign |-> "-", line |-> expectedLine[j]]]
                  \o [j \in DOMAIN actualLine |-> [sign |-> "+", line |-> actualLine[j]]]
             ELSE <<>>)
          \o GenerateSimpleDiff(expectedLines, actualLines, i + 1)

NoComparison == [equal |-> FALSE, diff |-> None]

\* compare(expected, actual) once both arguments have been normalized, e and
\* a being what the two normalize() calls gave.
CompareNormalized(e, a) ==
  LET expectedString == Stringify(e.out)
      actualString == Stringify(a.out)
      expectedJson == JsonStringify(e.out)
      actualJson == JsonStringify(a.out)
      reentered == e.reentered \/ a.reentered
      customThrew == e.customThrew \/ a.customThrew
  IN IF e.threw # "none"
       THEN [threw |-> e.threw, out |-> NoComparison, reentered |-> e.reentered,
             customThrew |-> e.customThrew, normalizer |-> e.normalizer]
     ELSE IF a.threw # "none"
       THEN [threw |-> a.threw, out |-> NoComparison, reentered |-> reentered,
             customThrew |-> customThrew, normalizer |-> a.normalizer]
     ELSE IF expectedString = actualString
       THEN [threw |-> "none", out |-> [equal |-> TRUE, diff |-> None],
             reentered |-> reentered, customThrew |-> customThrew, normalizer |-> a.normalizer]
     ELSE IF expectedJson = None \/ actualJson = None
       THEN [threw |-> "TypeError", out |-> NoComparison,
             reentered |-> reentered, customThrew |-> customThrew, normalizer |-> a.normalizer]
     ELSE [threw |-> "none",
           out |-> [equal |-> FALSE,
                    diff |-> Some(GenerateSimpleDiff(expectedJson[1], actualJson[1], 1))],
           reentered |-> reentered, customThrew |-> customThrew, normalizer |-> a.normalizer]

\* The objects the inputs are made of: two objects that may refer to each
\* other and to themselves.
ObjIds == {"o1", "o2"}

\* What an item of an array can hold, and what a member can: a sessionId
\* holds a string.
ItemValues == {Num("5")} \cup {Ref(id) : id \in ObjIds}
ValuesOf(key, values) == IF key = KSessionId THEN {Str("abc123")} ELSE values

\* The keys of an object, in insertion order: any one key, or two different
\* keys other than the empty one.
OneKey == {<<k>> : k \in Keys}
TwoKeys ==
  {<<j, k>> : j \in Keys \ {KEmpty}, k \in Keys \ {KEmpty}} \ {<<k, k>> : k \in Keys}

\* The objects with one of the given key orders whose members hold the given
\* values.
ObjectsOf(keyOrders, values) ==
  UNION { { Obj([i \in DOMAIN ks |-> Member(ks[i], f[i])]) :
              f \in {g \in [DOMAIN ks -> values \cup {Str("abc123")}] :
                       \A i \in DOMAIN ks : g[i] \in ValuesOf(ks[i], values)} } :
          ks \in keyOrders }

\* o1 is an object of up to two members that hold a number or o2; o2 is an
\* object of up to one member, or an array of up to one item, that holds a
\* number, o1 or o2 itself.
Heaps ==
  { [id \in ObjIds |-> IF id = "o1" THEN a ELSE b] :
      a \in ObjectsOf({<<>>} \cup OneKey \cup TwoKeys, {Num("5"), Ref("o2")}),
      b \in ObjectsOf({<<>>} \cup OneKey, ItemValues)
            \cup {Arr(<<>>)} \cup {Arr(<<v>>) : v \in ItemValues} }

\* The values normalize() and compare() are called with.
Roots == {JsUndefined, JsNull, Num("5")} \cup {Ref(id) : id \in ObjIds}
CompareRoots == Roots \ {JsNull}

\* new AgentSnapshotNormalizer(config)
NewNormalizer(config) ==
  LET c == NormalizerConfig(config)
  IN [config |-> c,
      seenObjects |-> {},
      lastIndex |-> [fieldsToIgnore |-> [i \in DOMAIN c.fieldsToIgnore |-> 0],
                     customNormalizers |-> [i \in DOMAIN c.customNormalizers |-> 0],
                     fieldsToNormalize |-> [i \in DOMAIN c.fieldsToNormalize |-> 0]]]

\* No call has been made on the normalizer.
NoNormalizerCall(heap) ==
  [fn |-> "none", heap |-> heap, args |-> <<>>, threw |-> "none", out |-> JsUndefined,
   reentered |-> FALSE, customThrew |-> FALSE, prev |-> None, changed |-> None]

\* A normalizer has been constructed; the caller holds some objects.
InitNormalizer ==
  /\ Constructed
  /\ snapLoops = EarlierSnapshot(0)
  /\ otherEntries = {}
  /\ runner = NoRunner
  /\ scope = NoScope
  /\ normalizer \in {NewNormalizer(c) : c \in CallerConfigs}
  /\ call \in {NoNormalizerCall(h) : h \in Heaps}

\* What a later call keeps of the call before it.
Earlier(c) == Some([args |-> c.args, heap |-> c.heap, threw |-> c.threw, out |-> c.out])

NormalizerFrame ==
  UNCHANGED <<agentVars, storeVars, hookVars, procVars, histVars, scope, runner>>

\* normalizer.normalize(obj)
CallNormalize ==
  /\ call.fn = "none"
  /\ \E obj \in Roots :
       \E r \in {NormalizeCall(call.heap, normalizer, obj)} :
          /\ call' = [call EXCEPT !.fn = "normalize", !.args = <<obj>>,
                        !.threw = r.threw, !.out = r.out,
                        !.reentered = r.reentered, !.customThrew = r.customThrew]
          /\ normalizer' = r.normalizer
  /\ NormalizerFrame

\* normalizer.normalize(x) where x is what the call before returned
CallNormalizeAgain ==
  /\ call.fn = "normalize"
  /\ call.prev = None
  /\ call.threw = "none"
  /\ \E r \in {NormalizeCall(call.heap, normalizer, call.out)} :
        /\ call' = [call EXCEPT !.args = <<call.out>>,
                      !.threw = r.threw, !.out = r.out,
                      !.reentered = r.reentered, !.customThrew = r.customThrew,
                      !.prev = Earlier(call)]
        /\ normalizer' = r.normalizer
  /\ NormalizerFrame

\* normalizer.compare(expected, actual)
CallCompare ==
  /\ call.fn = "none"
  /\ \E expected \in CompareRoots, actual \in CompareRoots :
       \E e \in {NormalizeCall(call.heap, normalizer, expected)} :
       \E a \in {NormalizeCall(call.heap, e.normalizer, actual)} :
       \E r \in {CompareNormalized(e, a)} :
          /\ call' = [call EXCEPT !.fn = "compare", !.args = <<expected, actual>>,
                        !.threw = r.threw, !.out = r.out,
                        !.reentered = r.reentered, !.customThrew = r.customThrew]
          /\ normalizer' = r.normalizer
  /\ NormalizerFrame

\* Some pattern of fieldsToIgnore matches the key.
IgnoredKey(config, key) ==
  \E i \in DOMAIN config.fieldsToIgnore :
    LET pattern == config.fieldsToIgnore[i]
    IN IF pattern.kind = "regexp" THEN MatchPositions(pattern, key, 0) # {}
       ELSE key = pattern.source

\* The object without its i-th member.
WithoutMember(object, i) ==
  Obj([j \in 1..(Len(object.o) - 1) |-> IF j < i THEN object.o[j] ELSE object.o[j + 1]])

\* The heaps that differ from the given one in one member whose key is to be
\* ignored: the member is gone, or holds another value.
EditedHeaps(config, heap) ==
  UNION { UNION { { [heap EXCEPT ![id] = WithoutMember(heap[id], i)],
                    [heap EXCEPT ![id].o[i].v = Str("other")] } :
                  i \in {j \in DOMAIN heap[id].o : IgnoredKey(config, heap[id].o[j].k)} } :
          id \in {x \in ObjIds : heap[x].t = "obj"} }

\* The caller changes a member that is to be ignored and calls
\* normalizer.compare() with the same arguments again.
CallCompareEdited ==
  /\ call.fn = "compare"
  /\ call.prev = None
  /\ \E heap \in EditedHeaps(normalizer.config, call.heap) :
       \E e \in {NormalizeCall(heap, normalizer, call.args[1])} :
       \E a \in {NormalizeCall(heap, e.normalizer, call.args[2])} :
       \E r \in {CompareNormalized(e, a)} :
          /\ call' = [call EXCEPT !.heap = heap,
                        !.threw = r.threw, !.out = r.out,
                        !.reentered = r.reentered, !.customThrew = r.customThrew,
                        !.prev = Earlier(call)]
          /\ normalizer' = r.normalizer
  /\ NormalizerFrame

\* The values that are objects of the heap.
ObjectRoots == {Ref(id) : id \in ObjIds}

\* The caller calls normalizer.compare() again with the two objects it has
\* just compared, the other way round.
CallCompareSwapped ==
  /\ call.fn = "compare"
  /\ call.prev = None
  /\ \E expected \in ObjectRoots, actual \in ObjectRoots :
       /\ call.args = <<actual, expected>>
       /\ \E e \in {NormalizeCall(call.heap, normalizer, expected)} :
          \E a \in {NormalizeCall(call.heap, e.normalizer, actual)} :
          \E r \in {CompareNormalized(e, a)} :
             /\ call' = [call EXCEPT !.fn = "compareSwapped", !.args = <<expected, actual>>,
                           !.threw = r.threw, !.out = r.out,
                           !.reentered = r.reentered, !.customThrew = r.customThrew,
                           !.prev = Earlier(call)]
             /\ normalizer' = r.normalizer
  /\ NormalizerFrame

\* The object with its members inserted in the opposite order.
Reversed(object) ==
  Obj([j \in DOMAIN object.o |-> object.o[Len(object.o) + 1 - j]])

\* normalizer.compare(o1, copy), the copy being what o1 is but for the order
\* in which its two members were inserted.
CallCompareReordered ==
  /\ call.fn = "none"
  /\ call.heap["o1"].t = "obj"
  /\ Len(call.heap["o1"].o) = 2
  /\ \E copy \in {[call.heap EXCEPT !["o1"] = Reversed(call.heap["o1"])]} :
     \E e \in {NormalizeCall(call.heap, normalizer, Ref("o1"))} :
     \E a \in {NormalizeCall(copy, e.normalizer, Ref("o1"))} :
     \E r \in {CompareNormalized(e, a)} :
        /\ call' = [call EXCEPT !.fn = "compareReordered", !.args = <<Ref("o1"), Ref("o1")>>,
                      !.threw = r.threw, !.out = r.out,
                      !.reentered = r.reentered, !.customThrew = r.customThrew]
        /\ normalizer' = r.normalizer
  /\ NormalizerFrame

\* normalizer.normalize(obj) on a normalizer that has compared two objects
\* before.
CallNormalizeAfter ==
  /\ call.fn = "compare"
  /\ call.prev = None
  /\ call.args[1] \in ObjectRoots
  /\ call.args[2] \in ObjectRoots
  /\ \E obj \in ObjectRoots :
       \E r \in {NormalizeCall(call.heap, normalizer, obj)} :
          /\ call' = [call EXCEPT !.fn = "normalizeAfter", !.args = <<obj>>,
                        !.threw = r.threw, !.out = r.out,
                        !.reentered = r.reentered, !.customThrew = r.customThrew,
                        !.prev = Earlier(call)]
          /\ normalizer' = r.normalizer
  /\ NormalizerFrame

\* Another value of the same primitive type.
OtherValue(v) == IF v.t = "number" THEN Num("6") ELSE Str("other")

\* normalizer.compare(o1, copy), the copy being what o1 is but for the value
\* of one member that holds a number or a string.
CallCompareChanged ==
  /\ call.fn = "none"
  /\ call.heap["o1"].t = "obj"
  /\ \E i \in {j \in DOMAIN call.heap["o1"].o : call.heap["o1"].o[j].v.t \in {"number", "string"}} :
     \E copy \in {[call.heap EXCEPT !["o1"].o[i].v = OtherValue(@)]} :
     \E e \in {NormalizeCall(call.heap, normalizer, Ref("o1"))} :
     \E a \in {NormalizeCall(copy, e.normalizer, Ref("o1"))} :
     \E r \in {CompareNormalized(e, a)} :
        /\ call' = [call EXCEPT !.fn = "compareChanged", !.args = <<Ref("o1"), Ref("o1")>>,
                      !.threw = r.threw, !.out = r.out,
                      !.reentered = r.reentered, !.customThrew = r.customThrew,
                      !.changed = Some([k |-> call.heap["o1"].o[i].k,
                                        expected |-> call.heap["o1"].o[i].v,
                                        actual |-> OtherValue(call.heap["o1"].o[i].v)])]
        /\ normalizer' = r.normalizer
  /\ NormalizerFrame

\* The objects the object `id` refers to, and those reachable from a set.
Successors(heap, id) ==
  IF heap[id].t = "arr"
    THEN {heap[id].o[i].s : i \in {j \in DOMAIN heap[id].o : heap[id].o[j].t = "ref"}}
    ELSE {heap[id].o[i].v.s : i \in {j \in DOMAIN heap[id].o : heap[id].o[j].v.t = "ref"}}

RECURSIVE Reachable(_, _)
Reachable(heap, ids) ==
  LET more == ids \cup UNION {Successors(heap, id) : id \in ids}
  IN IF more = ids THEN ids ELSE Reachable(heap, more)

\* No object reachable from the value can be reached from itself.
Acyclic(heap, obj) ==
  obj.t = "ref" =>
    \A id \in Reachable(heap, {obj.s}) : id \notin Reachable(heap, Successors(heap, id))

\* The value written out with an object of its own wherever the value refers
\* to an object of the heap: the same JSON content, nothing shared.
RECURSIVE Duplicated(_, _)
Duplicated(heap, v) ==
  LET target == IF v.t = "ref" THEN heap[v.s] ELSE v
  IN CASE target.t = "obj" ->
            Obj([i \in DOMAIN target.o |->
                   Member(target.o[i].k, Duplicated(heap, target.o[i].v))])
       [] target.t = "arr" ->
            Arr([i \in DOMAIN target.o |-> Duplicated(heap, target.o[i])])
       [] OTHER -> v

\* normalizer.compare(o1, copy), o1 holding another object and no cycle, the
\* copy being what o1 is with every object it holds written out again.
CallCompareDuplicated ==
  /\ call.fn = "none"
  /\ call.heap["o1"].t = "obj"
  /\ Successors(call.heap, "o1") # {}
  /\ Acyclic(call.heap, Ref("o1"))
  /\ \E copy \in {Duplicated(call.heap, Ref("o1"))} :
     \E e \in {NormalizeCall(call.heap, normalizer, Ref("o1"))} :
     \E a \in {NormalizeCall(call.heap, e.normalizer, copy)} :
     \E r \in {CompareNormalized(e, a)} :
        /\ call' = [call EXCEPT !.fn = "compareDuplicated", !.args = <<Ref("o1"), copy>>,
                      !.threw = r.threw, !.out = r.out,
                      !.reentered = r.reentered, !.customThrew = r.customThrew]
        /\ normalizer' = r.normalizer
  /\ NormalizerFrame

NextNormalizer ==
  \/ CallNormalize
  \/ CallNormalizeAgain
  \/ CallCompare
  \/ CallCompareEdited
  \/ CallCompareSwapped
  \/ CallCompareReordered
  \/ CallNormalizeAfter
  \/ CallCompareChanged
  \/ CallCompareDuplicated

SpecNormalizer == InitNormalizer /\ [][NextNormalizer]_vars

\* The first call made on the normalizer.
FirstCall == call.prev = None

\* C15: on every input, cyclic ones included, normalize() returns, and the
\* traversal never enters an object again below itself: it puts '[Circular]'
\* there instead.
C15_TerminatesWithMarkers ==
  (call.fn = "normalize" /\ FirstCall /\ ~call.customThrew) =>
     /\ call.threw = "none"
     /\ ~call.reentered

\* The same for inputs in which no key is the empty string.
C15_WithoutEmptyKeys ==
  (/\ call.fn = "normalize" /\ FirstCall /\ ~call.customThrew
   /\ \A id \in ObjIds : \A i \in DOMAIN call.heap[id].o :
        call.heap[id].t = "obj" => call.heap[id].o[i].k # KEmpty) =>
     /\ call.threw = "none"
     /\ ~call.reentered

\* C16: with the default rules, normalizing {sessionId: "abc123", value: 5}
\* gives {sessionId: "<<SESSION_ID>>", value: 5}.
C16_SessionIdSentinel ==
  (/\ call.fn = "normalize" /\ FirstCall
   /\ normalizer.config = NormalizerConfig(NoConfig)
   /\ call.args = <<Ref("o1")>>
   /\ call.heap["o1"] = Obj(<<Member(KSessionId, Str("abc123")), Member(KValue, Num("5"))>>)) =>
     /\ call.threw = "none"
     /\ call.out = Obj(<<Member(KSessionId, Str("<<SESSION_ID>>")), Member(KValue, Num("5"))>>)

\* C17: compare() never throws (the normalizer having no custom normalizer).
C17_CompareNeverThrows ==
  (call.fn = "compare" /\ normalizer.config.customNormalizers = <<>>) =>
     call.threw = "none"

\* C18: when a custom normalizer throws during normalize() or compare(), the
\* call throws that error and returns nothing.
C18_NormalizerFailurePropagates ==
  (call.fn \in {"normalize", "compare"} /\ call.customThrew) =>
     /\ call.threw = "NormalizerError"
     /\ call.out \in {JsUndefined, NoComparison}

\* compare() has thrown the error of a custom normalizer that failed on a
\* member of its second argument.
C18_Witness ==
  /\ call.fn = "compare"
  /\ call.customThrew
  /\ call.threw = "NormalizerError"
  /\ call.args[1] = Num("5")
  /\ call.args[2] = Ref("o1")

\* C19: normalize(normalize(x)) = normalize(x) for every acyclic x, the
\* normalizer having fixed replacements and ignore patterns only.
C19_Idempotent ==
  (/\ call.fn = "normalize" /\ ~FirstCall
   /\ normalizer.config.customNormalizers = <<>>
   /\ Acyclic(call.heap, call.prev[1].args[1])) =>
     /\ call.threw = "none"
     /\ call.out = call.args[1]

\* The same for normalizers none of whose patterns has the g flag.
C19_WithoutGlobalPatterns ==
  (/\ call.fn = "normalize" /\ ~FirstCall
   /\ Stateless(normalizer.config)
   /\ normalizer.config.customNormalizers = <<>>
   /\ Acyclic(call.heap, call.prev[1].args[1])) =>
     /\ call.threw = "none"
     /\ call.out = call.args[1]

\* A pattern of fieldsToIgnore matches the key or the path.
Ignored(config, key, path) ==
  \E i \in DOMAIN config.fieldsToIgnore :
    LET pattern == config.fieldsToIgnore[i]
    IN IF pattern.kind = "regexp"
         THEN MatchPositions(pattern, key, 0) # {} \/ MatchPositions(pattern, path, 0) # {}
         ELSE key = pattern.source \/ path = pattern.source

\* The members of a value, at every depth, with their paths.
RECURSIVE MembersOf(_, _)
MembersOf(v, path) ==
  CASE v.t = "obj" ->
         UNION { LET at == IF path # <<>> THEN path \o <<".">> \o v.o[i].k ELSE v.o[i].k
                 IN {[k |-> v.o[i].k, path |-> at]} \cup MembersOf(v.o[i].v, at) :
                 i \in DOMAIN v.o }
    [] v.t = "arr" ->
         UNION { MembersOf(v.o[i], path \o IndexSuffix(i)) : i \in DOMAIN v.o }
    [] OTHER -> {}

\* C20: what normalize() returns has no member, at any depth, whose key or
\* path matches an ignore pattern; and compare() gives the same verdict when
\* a member whose key matches an ignore pattern is removed or changed.
C20_IgnoredMembersHaveNoEffect ==
  /\ (call.fn = "normalize" /\ FirstCall /\ call.threw = "none") =>
       \A m \in MembersOf(call.out, <<>>) : ~Ignored(normalizer.config, m.k, m.path)
  /\ (call.fn = "compare" /\ ~FirstCall) =>
       /\ call.threw = call.prev[1].threw
       /\ call.out.equal = call.prev[1].out.equal

\* The same for normalizers none of whose patterns has the g flag.
C20_WithoutGlobalPatterns ==
  Stateless(normalizer.config) => C20_IgnoredMembersHaveNoEffect

\* The pattern matches the key or the path, when tried from their start.
Covers(pattern, key, path) ==
  IF pattern.kind = "regexp"
    THEN MatchPositions(pattern, key, 0) # {} \/ MatchPositions(pattern, path, 0) # {}
    ELSE key = pattern.source \/ path = pattern.source

\* The first pattern of the list that covers the member, 0 when none does.
FirstCovering(patterns, key, path) ==
  IF \E i \in DOMAIN patterns : Covers(patterns[i], key, path)
    THEN Min({i \in DOMAIN patterns : Covers(patterns[i], key, path)})
    ELSE 0

\* The rules the caller supplied: those that are not built in.
CallerRules(config) ==
  SelectSeq(config.fieldsToNormalize,
            LAMBDA r : \A d \in DOMAIN DefaultFieldsToNormalize :
                         DefaultFieldsToNormalize[d] # r)

\* The value the output holds under the key.
OutValue(out, key) ==
  LET i == CHOOSE j \in DOMAIN out.o : out.o[j].k = key IN out.o[i].v

\* normalize(o1) was the first call, o1 is a keyed object, and it returned.
NormalizedRootObject ==
  /\ call.fn = "normalize" /\ FirstCall
  /\ call.args = <<Ref("o1")>>
  /\ call.threw = "none"

\* The members of o1 that no ignore pattern covers.
SurvivingMembers ==
  {i \in DOMAIN call.heap["o1"].o :
     ~Ignored(normalizer.config, call.heap["o1"].o[i].k, call.heap["o1"].o[i].k)}

C22_SymmetricAndOrderIndependent ==
  /\ call.fn = "compareSwapped" =>
       /\ (call.threw = "none") = (call.prev[1].threw = "none")
       /\ call.out.equal = call.prev[1].out.equal
  /\ (call.fn = "compareReordered" /\ ~call.customThrew) =>
       /\ call.threw = "none"
       /\ call.out.equal

\* The first half alone.
C22_Symmetric ==
  call.fn = "compareSwapped" =>
     /\ (call.threw = "none") = (call.prev[1].threw = "none")
     /\ call.out.equal = call.prev[1].out.equal

\* The second half for objects whose two members do not hold the same object
\* and none of whose keys is the empty string.
C22_OrderIndependentWithoutSharing ==
  (/\ call.fn = "compareReordered" /\ ~call.customThrew
   /\ Stateless(normalizer.config)
   /\ \A id \in ObjIds : \A i \in DOMAIN call.heap[id].o :
        call.heap[id].t = "obj" => call.heap[id].o[i].k # KEmpty
   /\ ~(call.heap["o1"].o[1].v.t = "ref" /\ call.heap["o1"].o[2].v.t = "ref")) =>
     /\ call.threw = "none"
     /\ call.out.equal

\* The second half for objects none of whose keys is the empty string.
C22_OrderIndependentWithoutEmptyKeys ==
  (/\ call.fn = "compareReordered" /\ ~call.customThrew
   /\ Stateless(normalizer.config)
   /\ \A id \in ObjIds : \A i \in DOMAIN call.heap[id].o :
        call.heap[id].t = "obj" => call.heap[id].o[i].k # KEmpty) =>
     /\ call.threw = "none"
     /\ call.out.equal

\* ------------------------------------- a snapshot directory with strays
\* Entries a snapshot directory can hold besides the loop directories: a
\* directory loop-old, a plain file loop-notes, a directory notes.
StrayEntries ==
  { [name |-> LoopPrefix \o <<"o", "l", "d">>, isDirectory |-> TRUE],
    [name |-> LoopPrefix \o <<"n", "o", "t", "e", "s">>, isDirectory |-> FALSE],
    [name |-> <<"n", "o", "t", "e", "s">>, isDirectory |-> TRUE] }

\* An orchestrator constructed on a directory that holds some of them.
InitEntries ==
  /\ Constructed
  /\ call = NoCall
  /\ normalizer = NoNormalizer
  /\ otherEntries \in SUBSET StrayEntries
  /\ runner = NoRunner
  /\ scope = [ callers |-> {1},
               behaviours |-> {b \in Behaviours : b.content = "c1"},
               faultPlans |-> {{}},
               configs |-> {[updateSnapshots |-> None, verification |-> None,
                             normalizerConfig |-> None]} ]

SpecEntries == InitEntries /\ [][Next]_vars

\* The name has the form loop-<integer>.
IsLoopName(name) ==
  /\ StartsWith(name, LoopPrefix)
  /\ Len(name) > Len(LoopPrefix)
  /\ \A i \in (Len(LoopPrefix) + 1)..Len(name) : \E d \in DOMAIN Digits : name[i] = Digits[d]

\* The subdirectories of the snapshot directory named loop-<integer>.
NumberedLoopDirectories ==
  IF ~dirExists THEN {} ELSE {e \in ReaddirSync : e.isDirectory /\ IsLoopName(e.name)}

\* C23: the loop count snapshotExists(), generate() and test() use is the
\* number of subdirectories named loop-<integer>: test() goes past its
\* existence check only when there is one, the count test() hands to setup()
\* and the count generate() returns are that number.
C23_CountsOnlyNumberedLoopDirectories ==
  \A p \in Procs :
    /\ (inv[p].kind = "test" /\ HasHook(p)) => NumberedLoopDirectories # {}
    /\ (inv[p].kind = "test" /\ pc[p] = "t_setup") =>
         inv[p].loopCount = Cardinality(NumberedLoopDirectories)
    /\ (inv[p].kind = "generate" /\ Done(p) /\ result[p].status = "ok") =>
         result[p].loopCount = Cardinality(NumberedLoopDirectories)

\* The same for snapshot directories that hold no directory loop-old.
C23_WithoutUnnumberedLoopDirectories ==
  (\A e \in otherEntries : ~(e.isDirectory /\ StartsWith(e.name, LoopPrefix))) =>
     C23_CountsOnlyNumberedLoopDirectories

\* What the rule that decides a member substitutes: the return value of the
\* first custom normalizer that covers it or, if there is none, the
\* replacement of the first rule that does.  None when no rule covers it.
Substitution(config, m) ==
  LET c == FirstCovering(PatternsOf(config.customNormalizers), m.k, m.k)
      r == FirstCovering(PatternsOf(config.fieldsToNormalize), m.k, m.k)
  IN IF c > 0 THEN Some(CustomNormalizer(config.customNormalizers[c].normalizer, m.v).v)
     ELSE IF r > 0 THEN Some(config.fieldsToNormalize[r].replacement)
     ELSE None

\* C24: a member that matches a rule holds, in the output, what the rule
\* substitutes - also when that is undefined - and its original value is
\* not traversed.
C24_SubstitutedVerbatim ==
  NormalizedRootObject =>
    /\ \A i \in SurvivingMembers :
         LET m == call.heap["o1"].o[i]
             sub == Substitution(normalizer.config, m)
         IN sub # None => OutValue(call.out, m.k) = sub[1]
    /\ (/\ SurvivingMembers # {}
        /\ \A i \in SurvivingMembers :
             Substitution(normalizer.config, call.heap["o1"].o[i]) # None) =>
         normalizer.seenObjects = {Identity(Ref("o1"), <<>>)}

\* The same for rules that substitute something other than undefined.
C24_WithReplacement ==
  NormalizedRootObject =>
    /\ \A i \in SurvivingMembers :
         LET m == call.heap["o1"].o[i]
             sub == Substitution(normalizer.config, m)
         IN (sub # None /\ sub # Some(JsUndefined)) => OutValue(call.out, m.k) = sub[1]
    /\ (/\ SurvivingMembers # {}
        /\ \A i \in SurvivingMembers :
             Substitution(normalizer.config, call.heap["o1"].o[i])
               \notin {None, Some(JsUndefined)}) =>
         normalizer.seenObjects = {Identity(Ref("o1"), <<>>)}

\* The normalizer as it was when it was constructed.
AsConstructed(n) ==
  [n EXCEPT !.seenObjects = {},
            !.lastIndex = [fieldsToIgnore |-> [i \in DOMAIN n.config.fieldsToIgnore |-> 0],
                           customNormalizers |-> [i \in DOMAIN n.config.customNormalizers |-> 0],
                           fieldsToNormalize |-> [i \in DOMAIN n.config.fieldsToNormalize |-> 0]]]

\* What normalize(obj) gives on a normalizer that has made no call yet.
OnNewInstance(obj) == NormalizeCall(call.heap, AsConstructed(normalizer), obj)

\* C25: normalize(x) gives what it gives on a new instance whatever calls
\* the normalizer has served before, and compare(x, x) finds the second
\* argument equal to the first although it is the same object.
C25_NoCrossCallContamination ==
  /\ call.fn = "normalizeAfter" =>
       /\ call.threw = OnNewInstance(call.args[1]).threw
       /\ call.out = OnNewInstance(call.args[1]).out
  /\ (/\ call.fn = "compare"
      /\ call.args[1] = call.args[2]
      /\ call.args[1] \in ObjectRoots
      /\ OnNewInstance(call.args[1]).threw = "none") =>
       /\ call.threw = "none"
       /\ call.out.equal

\* The same for normalizers none of whose patterns has the g flag.
C25_WithoutGlobalPatterns ==
  Stateless(normalizer.config) => C25_NoCrossCallContamination

\* The seen set is reset nowhere but at the start of a top-level call: no
\* object is entered again below itself.
C25_ResetOnlyAtTopLevel ==
  (call.fn = "normalizeAfter" /\ ~call.customThrew) => ~call.reentered

\* The diff has a line with the given sign that shows the key with the value.
DiffLists(diff, sign, key, value) ==
  \E j \in DOMAIN diff :
    /\ diff[j].sign = sign
    /\ diff[j].line.key = Quoted(key)
    /\ diff[j].line.t = value.t
    /\ diff[j].line.s = value.s

\* No ignore pattern, custom normalizer or rule covers the key.
Uncovered(config, key) ==
  /\ ~Ignored(config, key, key)
  /\ FirstCovering(PatternsOf(config.customNormalizers), key, key) = 0
  /\ FirstCovering(PatternsOf(config.fieldsToNormalize), key, key) = 0

\* The result of a comparison: the diff against the verdict.
DiffMatchesVerdict ==
  /\ call.out.equal = (call.out.diff = None)
  /\ ~call.out.equal => Len(call.out.diff[1]) >= 1
  /\ (call.fn = "compareChanged" /\ Uncovered(normalizer.config, call.changed[1].k)) =>
       /\ ~call.out.equal
       /\ DiffLists(call.out.diff[1], "-", call.changed[1].k, call.changed[1].expected)
       /\ DiffLists(call.out.diff[1], "+", call.changed[1].k, call.changed[1].actual)

\* C26: the result compare returns has diff = null exactly when equal is
\* true and otherwise a diff of at least one removed or added line; for two
\* records that differ in the value of one primitive field only, the diff
\* lists the line of that field.
C26_DiffIffUnequal ==
  (call.fn \in {"compare", "compareChanged"} /\ call.threw = "none") => DiffMatchesVerdict

\* compare() has told two records apart that differ in one number, and the
\* diff lists that member's line on both sides.
C26_Witness ==
  /\ call.fn = "compareChanged"
  /\ call.threw = "none"
  /\ call.changed[1].k = KValue
  /\ ~call.out.equal
  /\ DiffLists(call.out.diff[1], "-", KValue, Num("5"))
  /\ DiffLists(call.out.diff[1], "+", KValue, Num("6"))

\* C27: when the runtime calls onProcessToolCalls with a wrapper installed,
\* the call completes with the callback's effects in place and hands the
\* runtime the callback's own value (with a result list the runtime skips its
\* tool dispatch); when the callback fails the wrapper records the error,
\* hands over undefined, and the runtime goes on to dispatch the tools itself.
C27_BatchWrapperYieldsCallbackValue ==
  [][\A p \in Procs :
       ( /\ Running(p)
         /\ run[p].step = "onProcessToolCalls"
         /\ agentHooks["onProcessToolCalls"].kind = "wrapper"
         /\ run'[p] # run[p] ) =>
       LET h == agentHooks["onProcessToolCalls"].hook
           out == CallbackOutcome(p, h, "onProcessToolCalls", currentLoopIteration)
       IN /\ run'[p].status = "running"
          /\ snapLoops' = out.loops
          /\ actualFiles' = out.actual
          /\ IF out.threw
               THEN /\ lastError'[h] = NewError(h)
                    /\ failures'[h] = failures[h] + 1
                    /\ run'[p].step = "onBeforeToolCall"
               ELSE /\ lastError'[h] = lastError[h]
                    /\ failures'[h] = failures[h]
                    /\ run'[p].step = IF out.value = Undefined
                                        THEN "onBeforeToolCall"
                                        ELSE "onAgentLoopEnd"]_vars

\* A test() whose replay of the recorded tool results made the runtime skip
\* its own dispatch in loop 1, no callback having failed.
C27_Witness ==
  \E p \in Procs :
    /\ pc[p] = "t_run"
    /\ run[p].status = "running"
    /\ run[p].loop = 1
    /\ run[p].step = "onAgentLoopEnd"
    /\ failures[inv[p].hook] = 0
    /\ agentHooks["onProcessToolCalls"].kind = "wrapper"

\* A generate() whose every callback of loop 1 failed, the batch callback
\* included, and whose runtime went on to dispatch the tools itself.
C27_WitnessFailure ==
  \E p \in Procs :
    /\ pc[p] = "g_run"
    /\ run[p].status = "running"
    /\ run[p].loop = 1
    /\ run[p].step = "onBeforeToolCall"
    /\ failures[inv[p].hook] = 5

\* C29: when the replay hook has an error once setup() has finished, test()
\* fails with that error, leaves the model client and the replay flag as
\* they were, never starts the run, and uninstalls the hook.
C29_FailsBeforeReplayIsArmed ==
  [][\A p \in Procs :
       ( /\ pc[p] = "t_setup"
         /\ HasError(inv[p].hook)
         /\ pc'[p] # pc[p] ) =>
       /\ pc'[p] = "done"
       /\ result'[p].status = "fail"
       /\ result'[p].error = GetLastError(inv[p].hook)
       /\ result'[p].ran = "none"
       /\ run'[p].status = "none"
       /\ llmClient' = llmClient
       /\ isReplay' = isReplay
       /\ ~isHooked'[inv[p].hook]
       /\ \A n \in HookNames : agentHooks'[n].hook # inv[p].hook]_vars

\* A first test() against a snapshot whose loop 1 has no recorded response:
\* it has failed with the hook's error, the runtime has no synthetic client
\* and is not flagged as replay.
C29_Witness ==
  \E p \in Procs :
    /\ pc[p] = "done"
    /\ inv[p].kind = "test"
    /\ inv[p].hook # 0
    /\ SetupLoadFails(inv[p].loopCount)
    /\ result[p].status = "fail"
    /\ result[p].error = HookError(inv[p].hook, 1)
    /\ result[p].ran = "none"
    /\ llmClient = 0
    /\ ~isReplay
    /\ agentHooks = OriginalCallbacks

\* A test() of caller p has reached `await this.agent.run(input)`.
ReachedRun(p) ==
  /\ inv[p].kind = "test"
  /\ \/ pc[p] \in {"t_run", "t_cleanup"}
     \/ pc[p] = "done" /\ result[p].ran # "none"

MaxCases == 2        \* cases the runner is configured with

CaseNames == {"a", "b"}

\* A configured case: its name, and whether the module at its path exports
\* 'agent' and 'runOptions'. Every module exports an agent of its own.
Cases == [name : CaseNames, exports : {"valid", "invalid"}]

CaseLists == UNION {[1..n -> Cases] : n \in 0..MaxCases}

\* The Error loadSnapshotCase throws for the case at index i.
LoadError(i) == [type |-> "FailedToLoadCaseModule", hook |-> 0, seq |-> i]

\* `results[caseConfig.name] = ...`
SetResult(results, name, res) ==
  [n \in DOMAIN results \cup {name} |-> IF n = name THEN res ELSE results[n]]

\* `new AgentSnapshotRunner(cases)` followed by generateAll() or testAll()
\* (updateSnapshots = false), up to the loop over this.cases. Kept as
\* history: the cases whose load was started, and for each case that ended
\* the AgentSnapshot it was run on and its outcome.
NewRunner(mode, cases) ==
  [ mode |-> mode, cases |-> cases, i |-> 0, phase |-> "loop",
    snapshot |-> 0, constructed |-> 0, results |-> <<>>, error |-> NoError,
    loaded |-> <<>>, outcomes |-> <<>> ]

InitRunner ==
  /\ Constructed
  /\ call = NoCall
  /\ normalizer = NoNormalizer
  /\ otherEntries = {}
  /\ runner \in {NewRunner(mode, cases) :
                   mode \in {"generateAll", "testAll"}, cases \in CaseLists}
  /\ scope = [ callers |-> {1},
               behaviours |-> {b \in Behaviours : b.loops = MaxLoops},
               faultPlans |-> {{}, {<<1, "onLLMRequest">>}},
               configs |-> {[updateSnapshots |-> None, verification |-> None,
                             normalizerConfig |-> None]} ]

\* The state `new AgentSnapshot(agent, {...})` gives the case's agent and
\* snapshot directory, loops being what the directory holds.
ConstructSnapshot(loops) ==
  /\ agentHooks' = OriginalCallbacks
  /\ llmClient' = 0
  /\ isReplay' = FALSE
  /\ currentLoopIteration' = 0
  /\ dirExists' = TRUE
  /\ snapLoops' = loops
  /\ actualFiles' = {}
  /\ otherEntries' = {}
  /\ hookKind' = [h \in HookIds |-> "none"]
  /\ isHooked' = [h \in HookIds |-> FALSE]
  /\ originalHooks' = [h \in HookIds |-> EmptyHooks]
  /\ lastError' = [h \in HookIds |-> NoError]
  /\ failures' = [h \in HookIds |-> 0]
  /\ hookCfg' = [h \in HookIds |-> None]
  /\ pc' = [p \in Procs |-> "idle"]
  /\ inv' = [p \in Procs |-> NoInvocation]
  /\ run' = [p \in Procs |-> NoRun]
  /\ result' = [p \in Procs |-> NoResult]
  /\ nInv' = 0
  /\ preHooks' = [p \in Procs |-> OriginalCallbacks]
  /\ endHooks' = [p \in Procs |-> OriginalCallbacks]
  /\ overlapped' = [p \in Procs |-> FALSE]
  /\ wrapperThrew' = FALSE
  /\ lastGenerate' = NoBehaviour

\* How a case ended: what its generate()/test() settled with, or the error
\* of its load, and the AgentSnapshot it ran on (0: none was constructed).
Outcome(snapshot, res) ==
  [snapshot |-> snapshot, status |-> res.status, error |-> res.error]

\* The catch block of the loop: log the error and throw it again.
RunnerRethrows(r, snapshot, err) ==
  [r EXCEPT !.phase = "threw", !.error = err,
            !.outcomes = Append(@, Outcome(snapshot, Fail(err)))]

\* The next iteration of `for (const caseConfig of this.cases)`, up to the
\* call of generate()/test(): loadSnapshotCase, then `new AgentSnapshot`.
RunnerLoadCase ==
  /\ runner.mode # "none"
  /\ runner.phase = "loop"
  /\ runner.i < Len(runner.cases)
  /\ LET i == runner.i + 1
         loaded == [runner EXCEPT !.loaded = Append(@, i)]
     IN IF runner.cases[i].exports = "invalid"
          THEN /\ runner' = RunnerRethrows(loaded, 0, LoadError(i))
               /\ UNCHANGED <<agentVars, storeVars, hookVars, procVars, histVars>>
          ELSE /\ runner' = [loaded EXCEPT !.phase = "awaiting",
                                           !.constructed = @ + 1,
                                           !.snapshot = runner.constructed + 1]
               /\ \E loops \in {EarlierSnapshot(0), EarlierSnapshot(MaxLoops)} :
                    ConstructSnapshot(loops)
  /\ UNCHANGED <<scope, call, normalizer>>

\* `await snapshot.generate(runOptions)`: the call begins.
RunnerCallsGenerate ==
  /\ runner.mode = "generateAll"
  /\ runner.phase = "awaiting"
  /\ nInv = 0
  /\ \E p \in Procs : GenerateBegin(p)

\* `await snapshot.test(runOptions)`: the call begins.
RunnerCallsTest ==
  /\ runner.mode = "testAll"
  /\ runner.phase = "awaiting"
  /\ nInv = 0
  /\ \E p \in Procs : TestBegin(p)

\* generateAll()/testAll() whose catch block logs the error and goes on to
\* the next case.
RunnerCaseSettlesKeepsGoing ==
  /\ runner.mode # "none"
  /\ runner.phase = "awaiting"
  /\ \E p \in Procs :
       /\ pc[p] = "done"
       /\ inv[p].kind # "none"
       /\ runner' = [runner EXCEPT
            !.i = @ + 1,
            !.phase = "loop",
            !.outcomes = Append(@, Outcome(runner.snapshot, result[p])),
            !.results = IF runner.mode = "testAll" /\ result[p].status = "ok"
                          THEN SetResult(@, runner.cases[runner.i + 1].name, result[p])
                          ELSE @]
  /\ UNCHANGED <<agentVars, storeVars, hookVars, procVars, histVars, scope, call, normalizer>>

\* The awaited generate()/test() of the case has settled: the result is kept
\* (testAll) and the loop goes on, or the catch block throws the error again.
RunnerCaseSettles ==
  /\ runner.mode # "none"
  /\ runner.phase = "awaiting"
  /\ \E p \in Procs :
       /\ pc[p] = "done"
       /\ inv[p].kind # "none"
       /\ runner' =
            IF result[p].status = "ok"
              THEN [runner EXCEPT
                     !.i = @ + 1,
                     !.phase = "loop",
                     !.outcomes = Append(@, Outcome(runner.snapshot, result[p])),
                     !.results = IF runner.mode = "testAll"
                                   THEN SetResult(@, runner.cases[runner.i + 1].name, result[p])
                                   ELSE @]
              ELSE RunnerRethrows(runner, runner.snapshot, result[p].error)
  /\ UNCHANGED <<agentVars, storeVars, hookVars, procVars, histVars, scope, call, normalizer>>

\* The loop is over: generateAll() returns, testAll() returns the results.
RunnerReturns ==
  /\ runner.mode # "none"
  /\ runner.phase = "loop"
  /\ runner.i = Len(runner.cases)
  /\ runner' = [runner EXCEPT !.phase = "returned"]
  /\ UNCHANGED <<agentVars, storeVars, hookVars, procVars, histVars, scope, call, normalizer>>

NextRunner ==
  \/ RunnerLoadCase
  \/ RunnerCallsGenerate
  \/ RunnerCallsTest
  \/ \E p \in Procs : GenerateResume(p)
  \/ \E p \in Procs : TestAfterSetup(p)
  \/ \E p \in Procs : TestResume(p)
  \/ \E p \in Procs : TestFinish(p)
  \/ \E p \in Procs : RunLoopStart(p)
  \/ \E p \in Procs : RunCall(p)
  \/ \E p \in Procs : RunReturns(p)
  \/ \E p \in Procs : RunThrows(p)
  \/ RunnerCaseSettles
  \/ RunnerReturns

SpecRunner == InitRunner /\ [][NextRunner]_vars

\* The cases that ended, in the order they ended.
Ended == DOMAIN runner.outcomes

\* C28: the cases are loaded in configured order, one at a time, the next
\* only after the one before has passed; every case that is run runs on an
\* AgentSnapshot of its own, called once; when a case fails the runner fails
\* with that case's error and does nothing more; testAll() returns only when
\* every case passed, with one entry per case name, the result of the last
\* case of that name.
C28_SequentialFailFast ==
  /\ [] /\ runner.loaded = [j \in 1..Len(runner.loaded) |-> j]
        /\ Len(runner.outcomes) <= Len(runner.loaded)
        /\ Len(runner.loaded) <= Len(runner.outcomes) + 1
        /\ \A j \in Ended : j < Len(runner.loaded) => runner.outcomes[j].status = "ok"
        /\ nInv <= 1
        /\ \A j, k \in Ended :
             (j # k /\ runner.outcomes[j].snapshot # 0) =>
               runner.outcomes[j].snapshot # runner.outcomes[k].snapshot
        /\ runner.phase = "threw" =>
             /\ runner.outcomes[Len(runner.outcomes)].status = "fail"
             /\ runner.error = runner.outcomes[Len(runner.outcomes)].error
             /\ runner.error # NoError
             /\ Len(runner.outcomes) = Len(runner.loaded)
        /\ runner.phase = "returned" =>
             /\ Len(runner.outcomes) = Len(runner.cases)
             /\ \A j \in Ended : runner.outcomes[j].status = "ok"
             /\ runner.mode = "testAll" =>
                  /\ DOMAIN runner.results = {runner.cases[j].name : j \in Ended}
                  /\ \A n \in DOMAIN runner.results : runner.results[n].status = "ok"
  /\ [][runner.phase \in {"threw", "returned"} => UNCHANGED vars]_vars

\* testAll() has returned the results of two cases that passed.
C28_Witness ==
  /\ runner.mode = "testAll"
  /\ runner.phase = "returned"
  /\ Len(runner.cases) = MaxCases
  /\ Cardinality(DOMAIN runner.results) = 2

\* The first of two cases failed in its generate(): generateAll() has failed
\* and the second case was never loaded.
C28_WitnessFailFast ==
  /\ runner.mode = "generateAll"
  /\ runner.phase = "threw"
  /\ Len(runner.cases) = MaxCases
  /\ runner.loaded = <<1>>
  /\ runner.outcomes[1].snapshot = 1

\* -------------------------------------------- shared references (C31)
\* The two members of o1 hold the same object o2, and no pattern of the
\* configuration covers either key.
SiblingsShare ==
  /\ call.heap["o1"].t = "obj"
  /\ Len(call.heap["o1"].o) = 2
  /\ \A i \in 1..2 :
       /\ call.heap["o1"].o[i].v = Ref("o2")
       /\ Uncovered(normalizer.config, call.heap["o1"].o[i].k)

\* No key of an object of the heap is the empty string.
NoEmptyKeys ==
  \A id \in ObjIds : \A i \in DOMAIN call.heap[id].o :
    call.heap[id].t = "obj" => call.heap[id].o[i].k # KEmpty

\* C31: in one call of normalize() an object the traversal has entered is
\* never entered again: where it occurs again there is '[Circular]', also at
\* the second of two siblings that hold the same object of an acyclic value.
C31_RepeatedReferencesMarked ==
  /\ (call.fn = "normalize" /\ FirstCall /\ ~call.customThrew) => ~call.reentered
  /\ (/\ call.fn = "normalize" /\ FirstCall
      /\ call.args = <<Ref("o1")>>
      /\ SiblingsShare) =>
       /\ call.threw = "none"
       /\ call.out.o[1].v # Circular
       /\ call.out.o[2].v = Circular

\* The same for inputs in which no key is the empty string.
C31_WithoutEmptyKeys == NoEmptyKeys => C31_RepeatedReferencesMarked

\* The consequence C31 draws: a value whose two members share an object and
\* the same content with that object written twice do not compare equal.
C31_SharedSiblingsCompareUnequal ==
  (call.fn = "compareDuplicated" /\ SiblingsShare) =>
     /\ call.threw = "none"
     /\ ~call.out.equal

\* compare() has told {v: s, value: s} from {v: {}, value: {}}, s being one
\* empty object.
C31_SharedVersusDuplicated ==
  /\ call.fn = "compareDuplicated"
  /\ normalizer.config = NormalizerConfig(NoConfig)
  /\ call.heap["o1"] = Obj(<<Member(KV, Ref("o2")), Member(KValue, Ref("o2"))>>)
  /\ call.heap["o2"] = Obj(<<>>)
  /\ call.args[2] = Obj(<<Member(KV, Obj(<<>>)), Member(KValue, Obj(<<>>))>>)
  /\ call.threw = "none"
  /\ ~call.out.equal

\* A value that holds one object once and the same content written out
\* compare equal.
C31_UnsharedComparesEqual ==
  (/\ call.fn = "compareDuplicated"
   /\ Stateless(normalizer.config)
   /\ ~call.customThrew
   /\ NoEmptyKeys
   /\ Cardinality({i \in DOMAIN call.heap["o1"].o : call.heap["o1"].o[i].v.t = "ref"}) = 1
   /\ Successors(call.heap, "o2") = {}) =>
     /\ call.threw = "none"
     /\ call.out.equal

\* ------------------------------- the normalizer configuration of test()
MaxUpdates == 2      \* updateNormalizerConfig() calls made on the orchestrator
MaxTests == 2        \* test() calls made on the orchestrator

\* The AgentNormalizerConfig objects a caller gives: each member is optional.
GivenNormalizerConfigs ==
  [ fieldsToNormalize : {None, Some(<<Rule(StringPattern(KV), Str("<<V>>"))>>)},
    fieldsToIgnore : {None, Some(<<StringPattern(KValue)>>)},
    customNormalizers : {None} ]

OptionalNormalizerConfigs == {None} \cup {Some(c) : c \in GivenNormalizerConfigs}

\* The settings given at one level, a normalizerConfig among them.
ConfigLevels ==
  [ updateSnapshots : {None}, verification : {None},
    normalizerConfig : OptionalNormalizerConfigs ]

\* `new AgentSnapshot(agent, options)`: this.options is a copy of the
\* options, and the snapshot manager is constructed with their
\* normalizerConfig. config is what the caller will give to test().
NewOrchestrator(options, config) ==
  [ fn |-> "none", options |-> options, config |-> config,
    store |-> options.normalizerConfig,
    constructed |-> options, handed |-> None,
    out |-> None, prev |-> None, tests |-> 0, updates |-> 0 ]

InitNormalizerConfig ==
  /\ Constructed
  /\ runner = NoRunner
  /\ scope = NoScope
  /\ normalizer = NoNormalizer
  /\ otherEntries = {}
  /\ call \in {NewOrchestrator(options, config) :
                 options \in ConfigLevels, config \in ConfigLevels}

\* updateNormalizerConfig that also replaces the orchestrator's own option.
UpdateNormalizerConfigWritesOptions(o, config) ==
  [ options |-> [o.options EXCEPT !.normalizerConfig = Some(config)],
    store |-> Some(config) ]

\* AgentSnapshot.updateNormalizerConfig(config): the configuration is handed
\* to the snapshot manager; this.options is not written.
UpdateNormalizerConfig(o, config) ==
  [ options |-> o.options, store |-> Some(config) ]

\* snapshot.updateNormalizerConfig(config)
CallUpdateNormalizerConfig ==
  /\ call.fn \in {"none", "testSetup", "updateNormalizerConfig"}
  /\ call.updates < MaxUpdates
  /\ \E config \in GivenNormalizerConfigs :
     \E r \in {UpdateNormalizerConfig([options |-> call.options, store |-> call.store],
                                      config)} :
       call' = [call EXCEPT !.fn = "updateNormalizerConfig",
                            !.options = r.options, !.store = r.store,
                            !.handed = Some(config), !.updates = @ + 1]
  /\ UNCHANGED <<agentVars, storeVars, hookVars, procVars, histVars, scope, runner, normalizer>>

\* snapshot.test(input, config), up to the options object it builds for
\* hook.setup(...).
CallTestSetup ==
  /\ call.fn \in {"none", "testSetup", "updateNormalizerConfig"}
  /\ call.tests < MaxTests
  /\ call' = [call EXCEPT !.fn = "testSetup",
                          !.out = Some(SetupOptions(call.config, call.options)),
                          !.prev = call.out, !.tests = @ + 1]
  /\ UNCHANGED <<agentVars, storeVars, hookVars, procVars, histVars, scope, runner, normalizer>>

NextNormalizerConfig ==
  \/ CallUpdateNormalizerConfig
  \/ CallTestSetup

SpecNormalizerConfig == InitNormalizerConfig /\ [][NextNormalizerConfig]_vars

C32_WitnessWholesale ==
  /\ call.fn = "testSetup"
  /\ call.config.normalizerConfig # None
  /\ call.config.normalizerConfig[1].fieldsToNormalize = None
  /\ call.constructed.normalizerConfig # None
  /\ call.constructed.normalizerConfig[1].fieldsToNormalize # None
  /\ call.out[1].normalizerConfig[1].fieldsToNormalize = None

\* ------------------------------------------- the hook's recorded error
\* C33: unhookAgent() leaves the recorded error as it is; whatever calls
\* were made on the hook, hasError() is true exactly when a callback behind
\* a wrapper or a chunk write has failed since the hook was constructed or
\* its error last cleared, and exactly when getLastError() is not null.
C33_ErrorSurvivesUninstall ==
  /\ [] /\ HasError(TheHook) = call.failed
        /\ HasError(TheHook) = (GetLastError(TheHook) # NoError)
  /\ [][call'.fn = "unhookAgent" => lastError' = lastError]_vars

\* A callback failed while the hook was installed, the hook has been
\* uninstalled since, and it still has the error.
C33_Witness ==
  /\ call.fn = "unhookAgent"
  /\ ~call.redundant
  /\ ~isHooked[TheHook]
  /\ call.failed
  /\ failures[TheHook] >= 1
  /\ HasError(TheHook)
  /\ GetLastError(TheHook) = HookError(TheHook, failures[TheHook])

\* The error was cleared after a failure and no callback has failed since.
C33_WitnessCleared ==
  /\ call.fn = "clearError"
  /\ failures[TheHook] >= 1
  /\ ~call.failed
  /\ ~HasError(TheHook)

====
